---- MODULE Spec2Model ----
(***************************************************************************)
(* Posting queue and vote-driven moderation engine of memebot:             *)
(*   services/voting.py      VotingService.register_vote and its helpers   *)
(*   services/autoposter.py  AutoPoster.tick and its helpers               *)
(*   db.py                   the store (channels, content_items, posts,    *)
(*                           votes)                                        *)
(* None and the empty string are both written "" (Python treats both as    *)
(* false); an absent audience size is written 0 (`audience_size or 0`).    *)
(***************************************************************************)
EXTENDS Integers, FiniteSets, Sequences, TLC

\* ------------------------------------------------------------------ bounds
\* Distinct voters (telegram user ids) that vote on one post.
MaxVoters == 7
\* register_vote calls that run concurrently.
NumCalls == 2
\* Scheduler ticks in one run.
MaxTicks == 2
\* source instances built by direct calls of _get_or_create_source
MaxSources == 4
\* runner tasks start() creates in one run
MaxStarts == 2

\* ------------------------------------------------------- program constants
\* voting.py:61  net_threshold = manual_dislike or -9999
SENTINEL == 9999

Users == 1..MaxVoters
VoteValues == {1, -1}
PostIds == {1}
ChannelIds == {1}

VARIABLES
    channels,     \* channels table: channel id -> row
    posts,        \* posts table: post id -> row
    votes,        \* votes table: post id -> voter -> vote
    service,      \* VotingService fields: quarantine_chat_id, pinterest_client
    latest,       \* history: the value each voter cast last, in arrival order (0: none)
    promoted,     \* history: posts for which a promotion has succeeded
    quarantine_fired, \* history: posts for which the quarantine transition has fired
    demoted,      \* history: posts for which the board client was invoked for the
                  \* bad board
    last,         \* what the last completed register_vote call did and returned
                  \* (changed: the voter had cast the other value before; client_ok,
                  \* bad_ok, forward_ok: the outcome of the board client call for
                  \* the good board, of the one for the bad board and of the
                  \* forward, TRUE when the call was not made)
    calls,        \* register_vote calls in progress: call id -> its position and locals
    content_items,\* content_items table: item id -> row
    tick,         \* AutoPoster.tick in progress: its position and locals, and the
                  \* history of the tick (eligible, processed, errored, result)
    last_run,     \* AutoPoster._last_run: channel id -> time of the last publishing tick
    delivered,    \* history: posts whose message the gateway has accepted
    clock,        \* wall clock: time of the latest tick, ticks started
    settings,     \* Settings: max_posts_per_run, posting_start_hour, posting_end_hour
    publish_log,  \* history: channel id -> start time of the last tick that recorded
                  \* a post of the channel as posted (0: none)
    store_call,   \* the last direct call of a store method and what it returned
    sources,      \* AutoPoster._source_cache and _source_signature: channel id ->
                  \* source instance (0: none) and (key, signature); created: the
                  \* number of instances ContentSourceFactory.create has built
    source_call,  \* the last direct call of _get_or_create_source and its result
    task          \* AutoPoster._task: runners: the runner tasks created and not
                  \* done; starts: the runner tasks created so far; call: what the
                  \* last start() or stop() call did

vars == <<channels, posts, votes, service, latest, promoted, quarantine_fired, demoted,
          last, calls,
          content_items, tick, last_run, delivered, clock, settings, publish_log, store_call,
          sources, source_call, task>>

\* ------------------------------------------------------------------- store

\* The votes table carries UNIQUE(post_id, telegram_user_id) (db.py:82), so it
\* is a map from that key to the row's vote; 0 stands for "no row".
has_vote(rows, post_id, telegram_user_id) == rows[post_id][telegram_user_id] # 0

\* Mutation of record_vote: ON CONFLICT DO NOTHING, the first vote is kept.
record_vote_keep_first(rows, post_id, telegram_user_id, vote) ==
    IF has_vote(rows, post_id, telegram_user_id) THEN rows
    ELSE [rows EXCEPT ![post_id][telegram_user_id] = vote]

\* db.py record_vote: INSERT ... ON CONFLICT(post_id, telegram_user_id) DO UPDATE SET vote
record_vote(rows, post_id, telegram_user_id, vote) ==
    [rows EXCEPT ![post_id][telegram_user_id] = vote]

\* Database.record_vote_once (called by register_vote): upserts the vote, last
\* value wins, and tells whether the voter had no vote on the post before.
record_vote_once(rows, post_id, telegram_user_id, vote) ==
    [rows |-> record_vote(rows, post_id, telegram_user_id, vote),
     inserted |-> ~has_vote(rows, post_id, telegram_user_id)]

\* Mutation of vote_groups: COUNT(DISTINCT vote), every group counts one.
vote_groups_distinct(rows, post_id) ==
    {<<v, 1>> : v \in {rows[post_id][u] : u \in Users} \ {0}}

\* SELECT vote, COUNT(1) FROM votes WHERE post_id=? GROUP BY vote
vote_groups(rows, post_id) ==
    {<<v, Cardinality({u \in Users : rows[post_id][u] = v})>> :
        v \in {rows[post_id][u] : u \in Users} \ {0}}

RECURSIVE sum_counts(_)
sum_counts(groups) ==
    IF groups = {} THEN 0
    ELSE LET g == CHOOSE x \in groups : TRUE IN g[2] + sum_counts(groups \ {g})

\* Mutation of aggregate_votes: the groups are counted, not their COUNT(1) summed.
aggregate_votes_count_groups(rows, post_id) ==
    LET groups == vote_groups(rows, post_id) IN
    [likes |-> Cardinality({g \in groups : g[1] > 0}),
     dislikes |-> Cardinality({g \in groups : g[1] < 0})]

\* db.py aggregate_votes
aggregate_votes(rows, post_id) ==
    LET groups == vote_groups(rows, post_id) IN
    [likes |-> sum_counts({g \in groups : g[1] > 0}),
     dislikes |-> sum_counts({g \in groups : g[1] < 0})]

\* db.py fetch_post: the post row joined with its channel's thresholds and boards
fetch_post(post_id) ==
    LET p == posts[post_id]
        c == channels[p.channel_id] IN
    [id |-> post_id,
     status |-> p.status,
     audience_size |-> p.audience_size,
     like_threshold |-> c.like_threshold,
     dislike_threshold |-> c.dislike_threshold,
     pinterest_board_id |-> c.pinterest_board_id,
     pinterest_bad_board_id |-> c.pinterest_bad_board_id]

\* Mutation of set_pinned: every post of the content item is updated.
set_pinned_by_item(tbl, post_id) ==
    [q \in DOMAIN tbl |->
        IF tbl[q].content_item_id = tbl[post_id].content_item_id
        THEN [tbl[q] EXCEPT !.status = "pinned"] ELSE tbl[q]]

\* db.py set_pinned / set_quarantined: unconditional UPDATE of the status
set_pinned(tbl, post_id) == [tbl EXCEPT ![post_id].status = "pinned"]

\* Mutation of set_quarantined: a row that is already pinned is left as it is.
set_quarantined_unless_pinned(tbl, post_id) ==
    [tbl EXCEPT ![post_id].status = IF @ = "pinned" THEN @ ELSE "quarantined"]

set_quarantined(tbl, post_id) == [tbl EXCEPT ![post_id].status = "quarantined"]

\* ------------------------------------------------ register_vote, thresholds

\* voting.py:55-56  audience = post_row["audience_size"] or 0;
\* dynamic_threshold = (audience + 1) // 2 if audience else None   (None is 0 here)
dynamic_threshold(post_row) ==
    IF post_row.audience_size # 0 THEN (post_row.audience_size + 1) \div 2 ELSE 0

\* Mutation of like_threshold: the audience-derived threshold takes precedence.
like_threshold_dynamic_first(post_row) ==
    IF dynamic_threshold(post_row) # 0 THEN dynamic_threshold(post_row)
    ELSE IF post_row.like_threshold > 0 THEN post_row.like_threshold ELSE 1

\* Mutation of like_threshold: no fallback when the audience is unknown.
like_threshold_no_fallback(post_row) ==
    IF post_row.like_threshold > 0 THEN post_row.like_threshold
    ELSE dynamic_threshold(post_row)

\* voting.py:57,59
like_threshold(post_row) ==
    IF post_row.like_threshold > 0 THEN post_row.like_threshold
    ELSE IF dynamic_threshold(post_row) # 0 THEN dynamic_threshold(post_row) ELSE 1

\* voting.py:58,60
dislike_threshold(post_row) ==
    IF post_row.dislike_threshold < 0 THEN -post_row.dislike_threshold
    ELSE IF dynamic_threshold(post_row) # 0 THEN dynamic_threshold(post_row) ELSE 1

\* Mutation of net_threshold: the configured threshold is used as it is.
net_threshold_no_sentinel(post_row) == post_row.dislike_threshold

\* voting.py:61
net_threshold(post_row) ==
    IF post_row.dislike_threshold # 0 THEN post_row.dislike_threshold ELSE -SENTINEL

\* voting.py:62,64-65
good_board(post_row) ==
    IF post_row.status = "pinned" THEN "" ELSE post_row.pinterest_board_id

\* Mutation of should_pin: the likes alone decide, whatever board is configured.
should_pin_without_board(post_row, likes) == likes >= like_threshold(post_row)

\* voting.py:68
should_pin(post_row, likes) ==
    likes >= like_threshold(post_row) /\ good_board(post_row) # ""

\* Mutation of should_pin_bad: only a post that is still 'posted' is demoted.
should_pin_bad_while_posted(post_row, dislikes) ==
    /\ dislikes >= dislike_threshold(post_row)
    /\ post_row.pinterest_bad_board_id # ""
    /\ post_row.status = "posted"

\* voting.py:76
should_pin_bad(post_row, dislikes) ==
    dislikes >= dislike_threshold(post_row) /\ post_row.pinterest_bad_board_id # ""

\* Mutation of should_quarantine: strict comparison with the net threshold.
should_quarantine_strict(post_row, likes, dislikes) ==
    (likes - dislikes) < net_threshold(post_row) /\ post_row.status # "quarantined"

\* voting.py:78
should_quarantine(post_row, likes, dislikes) ==
    (likes - dislikes) <= net_threshold(post_row) /\ post_row.status # "quarantined"

\* voting.py _save_pin: the content row exists for every post; a client is
\* invoked when one is configured, and the pin is saved when that call returns.
save_pin_invokes_client == service.pinterest_client

\* Mutation of save_pin: a failed client call is taken for a saved pin.
save_pin_ignores_failure(client_ok) == service.pinterest_client

save_pin(client_ok) == service.pinterest_client /\ client_ok

\* voting.py _send_to_quarantine: forwards only when a destination is configured
quarantine_forwards == service.quarantine_chat_id # ""

\* Mutation of send_to_quarantine: the post is marked whatever the forward did.
send_to_quarantine_unchecked(forward_ok) == TRUE

send_to_quarantine(forward_ok) == service.quarantine_chat_id = "" \/ forward_ok

\* Mutation of vote_outcome: a pin saved to the bad board counts as a promotion.
vote_outcome_bad_pin_promotes(post_row, likes, dislikes, client_ok, bad_ok, forward_ok) ==
    LET try_pin == should_pin(post_row, likes)
        try_bad == should_pin_bad(post_row, dislikes)
        pinned == (try_pin /\ save_pin(client_ok)) \/ (try_bad /\ save_pin(bad_ok))
        try_quarantine == should_quarantine(post_row, likes, dislikes)
        quarantined == try_quarantine /\ send_to_quarantine(forward_ok)
    IN [good_called |-> try_pin /\ save_pin_invokes_client,
        pinned |-> pinned,
        bad_called |-> try_bad /\ save_pin_invokes_client,
        quarantine_tried |-> try_quarantine,
        forwarded |-> try_quarantine /\ quarantine_forwards,
        quarantined |-> quarantined,
        action |-> IF quarantined THEN "quarantined"
                   ELSE IF pinned THEN "pinned" ELSE "none"]

\* What one register_vote call does once it holds the aggregates and the post
\* row: voting.py:64-82. client_ok, bad_ok and forward_ok are the outcomes of the
\* board client call for the good board, of the one for the bad board and of
\* forward_message. _pin_bad returns nothing: what _save_pin returned to it is
\* dropped.
vote_outcome(post_row, likes, dislikes, client_ok, bad_ok, forward_ok) ==
    LET try_pin == should_pin(post_row, likes)
        pinned == try_pin /\ save_pin(client_ok)
        try_bad == should_pin_bad(post_row, dislikes)
        try_quarantine == should_quarantine(post_row, likes, dislikes)
        quarantined == try_quarantine /\ send_to_quarantine(forward_ok)
    IN [good_called |-> try_pin /\ save_pin_invokes_client,
        pinned |-> pinned,
        bad_called |-> try_bad /\ save_pin_invokes_client,
        quarantine_tried |-> try_quarantine,
        forwarded |-> try_quarantine /\ quarantine_forwards,
        quarantined |-> quarantined,
        action |-> IF quarantined THEN "quarantined"
                   ELSE IF pinned THEN "pinned" ELSE "none"]

\* The outcomes a call can have: the result of a call that is not made is no input.
client_outcomes(post_row, likes) ==
    IF should_pin(post_row, likes) /\ save_pin_invokes_client THEN BOOLEAN ELSE {TRUE}

bad_outcomes(post_row, dislikes) ==
    IF should_pin_bad(post_row, dislikes) /\ save_pin_invokes_client THEN BOOLEAN ELSE {TRUE}

forward_outcomes(post_row, likes, dislikes) ==
    IF should_quarantine(post_row, likes, dislikes) /\ quarantine_forwards
    THEN BOOLEAN ELSE {TRUE}

\* VotingService.register_vote run without interleaving.
register_vote(post_id, user_id, vote_value) ==
    /\ post_id \in DOMAIN posts
    /\ \E rec \in {record_vote_once(votes, post_id, user_id, vote_value)} :
       \E agg \in {aggregate_votes(rec.rows, post_id)} :
       \E post_row \in {fetch_post(post_id)} :
       \E client_ok \in client_outcomes(post_row, agg.likes) :
       \E bad_ok \in bad_outcomes(post_row, agg.dislikes) :
       \E forward_ok \in forward_outcomes(post_row, agg.likes, agg.dislikes) :
       \E o \in {vote_outcome(post_row, agg.likes, agg.dislikes, client_ok, bad_ok,
                              forward_ok)} :
        /\ votes' = rec.rows
        /\ \E pinned \in {IF o.pinned THEN set_pinned(posts, post_id) ELSE posts} :
            posts' = IF o.quarantined THEN set_quarantined(pinned, post_id) ELSE pinned
        /\ latest' = [latest EXCEPT ![post_id][user_id] = vote_value]
        /\ promoted' = IF o.pinned THEN promoted \cup {post_id} ELSE promoted
        /\ quarantine_fired' = IF o.quarantined THEN quarantine_fired \cup {post_id}
                               ELSE quarantine_fired
        /\ demoted' = IF o.bad_called THEN demoted \cup {post_id} ELSE demoted
        /\ last' = [post_id |-> post_id,
                    likes |-> agg.likes, dislikes |-> agg.dislikes, action |-> o.action,
                    inserted |-> rec.inserted,
                    changed |-> latest[post_id][user_id] \notin {0, vote_value},
                    good_called |-> o.good_called,
                    pinned |-> o.pinned,
                    bad_called |-> o.bad_called,
                    quarantine_tried |-> o.quarantine_tried,
                    forwarded |-> o.forwarded,
                    quarantined |-> o.quarantined,
                    client_ok |-> client_ok,
                    bad_ok |-> bad_ok,
                    forward_ok |-> forward_ok]
        /\ UNCHANGED <<channels, service, calls, content_items, tick, last_run, delivered,
                       clock, settings, publish_log, store_call,
                   sources, source_call, task>>

\* --------------------------------------------------- autoposter: the store

\* settings (config.py)
max_posts_per_run == settings.max_posts_per_run
posting_start_hour == settings.posting_start_hour
posting_end_hour == settings.posting_end_hour
\* db.py:41  autopost_interval INTEGER NOT NULL DEFAULT 900
AutopostInterval == 900

RECURSIVE SortedSeq(_)
SortedSeq(S) ==
    IF S = {} THEN <<>>
    ELSE LET m == CHOOSE x \in S : \A y \in S : x <= y IN <<m>> \o SortedSeq(S \ {m})

\* db.py iter_channels: SELECT * FROM channels WHERE enabled = 1 ORDER BY id
iter_channels == SortedSeq({c \in DOMAIN channels : channels[c].enabled})

\* (source_type, source_id) is unique in content_items (db.py:58); the source
\* type is the same for all candidates here
item_id_of(items, source_id) ==
    IF \E i \in DOMAIN items : items[i].source_id = source_id
    THEN CHOOSE i \in DOMAIN items : items[i].source_id = source_id
    ELSE 0

\* Mutation of upsert_content_item: ON CONFLICT DO NOTHING, the first payload is kept.
upsert_content_item_keep(items, source_id, payload) ==
    LET id == item_id_of(items, source_id) IN
    IF id # 0 THEN [items |-> items, id |-> id]
    ELSE [items |-> Append(items, [source_id |-> source_id, payload |-> payload]),
          id |-> Len(items) + 1]

\* db.py upsert_content_item: INSERT ... ON CONFLICT DO UPDATE SET payload RETURNING id
upsert_content_item(items, source_id, payload) ==
    LET id == item_id_of(items, source_id) IN
    IF id # 0 THEN [items |-> [items EXCEPT ![id].payload = payload], id |-> id]
    ELSE [items |-> Append(items, [source_id |-> source_id, payload |-> payload]),
          id |-> Len(items) + 1]

\* Mutation of get_unposted_item: only a pending post counts as queued.
get_unposted_item_pending(tbl, channel_id, content_item_id) ==
    IF \E p \in DOMAIN tbl : tbl[p].channel_id = channel_id
                             /\ tbl[p].content_item_id = content_item_id
                             /\ tbl[p].status = "pending"
    THEN CHOOSE p \in DOMAIN tbl : tbl[p].channel_id = channel_id
                                   /\ tbl[p].content_item_id = content_item_id
                                   /\ tbl[p].status = "pending"
    ELSE 0

\* db.py get_unposted_item: the post of (channel, item), whatever its status; 0 is None
get_unposted_item(tbl, channel_id, content_item_id) ==
    IF \E p \in DOMAIN tbl : tbl[p].channel_id = channel_id
                             /\ tbl[p].content_item_id = content_item_id
    THEN CHOOSE p \in DOMAIN tbl : tbl[p].channel_id = channel_id
                                   /\ tbl[p].content_item_id = content_item_id
    ELSE 0

\* Mutation of create_post: a plain INSERT, a row is added on every call.
create_post_insert(tbl, channel_id, content_item_id) ==
    Append(tbl, [channel_id |-> channel_id, content_item_id |-> content_item_id,
                 status |-> "pending", audience_size |-> 0])

\* db.py create_post: INSERT ... ON CONFLICT(channel_id, content_item_id)
\* DO UPDATE SET status='pending'
create_post(tbl, channel_id, content_item_id) ==
    LET id == get_unposted_item(tbl, channel_id, content_item_id) IN
    IF id # 0 THEN [tbl EXCEPT ![id].status = "pending"]
    ELSE Append(tbl, [channel_id |-> channel_id, content_item_id |-> content_item_id,
                      status |-> "pending", audience_size |-> 0])

\* db.py create_post: RETURNING id
create_post_id(tbl, channel_id, content_item_id) ==
    LET id == get_unposted_item(tbl, channel_id, content_item_id) IN
    IF id # 0 THEN id ELSE Len(tbl) + 1

\* Database.count_pending_posts (called by tick)
count_pending_posts(tbl, channel_id) ==
    Cardinality({p \in DOMAIN tbl : tbl[p].channel_id = channel_id
                                    /\ tbl[p].status = "pending"})

RECURSIVE Take(_, _)
Take(s, n) == IF n = 0 \/ s = <<>> THEN <<>> ELSE <<Head(s)>> \o Take(Tail(s), n - 1)

\* Database.fetch_pending_posts (called by _publish_from_queue): up to `limit`
\* pending posts of the channel, oldest first
fetch_pending_posts(tbl, channel_id, limit) ==
    Take(SortedSeq({p \in DOMAIN tbl : tbl[p].channel_id = channel_id
                                       /\ tbl[p].status = "pending"}), limit)

\* db.py mark_posted: UPDATE posts SET status='posted', ... WHERE id=?  (the
\* caller also passes the audience size it has read)
mark_posted(tbl, post_id, audience_size) ==
    [tbl EXCEPT ![post_id].status = "posted", ![post_id].audience_size = audience_size]

\* Database.mark_failed (called by _send_post)
mark_failed(tbl, post_id) == [tbl EXCEPT ![post_id].status = "failed"]

\* --------------------------------------------------- autoposter: the tick

\* Mutation of is_within_window: a window that wraps midnight is not recognised.
is_within_window_no_wrap(hour) ==
    posting_start_hour <= hour /\ hour < posting_end_hour

\* autoposter.py _is_within_window
is_within_window(hour) ==
    IF posting_start_hour <= posting_end_hour
    THEN posting_start_hour <= hour /\ hour < posting_end_hour
    ELSE hour >= posting_start_hour \/ hour < posting_end_hour

\* autoposter.py:104  max(max_posts_per_run * 2, max_posts_per_run)
queue_target ==
    IF max_posts_per_run * 2 >= max_posts_per_run THEN max_posts_per_run * 2
    ELSE max_posts_per_run

\* autoposter.py:86-98: the channel passes every `continue` before the source
\* is built (_build_source_kwargs returns None for an unconfigured source)
passes_gates(channel_id, now_ts, hour) ==
    /\ channels[channel_id].enabled
    /\ is_within_window(hour)
    /\ ~(now_ts - last_run[channel_id] < channels[channel_id].autopost_interval)
    /\ channels[channel_id].source_configured

\* one post per channel and tick, window 22:00 - 06:00
NightSettings ==
    [max_posts_per_run |-> 1, posting_start_hour |-> 22, posting_end_hour |-> 6]

\* the keys of the source kwargs in the order json.dumps(sort_keys=True) writes them
KeyOrder == <<"locale", "query">>

\* Mutation of json_dumps: the keys are written in the order of the dict.
json_dumps_unsorted(kwargs) == kwargs

\* autoposter.py:202 json.dumps(kwargs, sort_keys=True): kwargs is a dict, here
\* the sequence of its (key, value) pairs in insertion order; the text lists
\* the pairs by key
json_dumps(kwargs) ==
    LET at(k) == CHOOSE i \in DOMAIN kwargs : kwargs[i][1] = k
        present == SelectSeq(KeyOrder, LAMBDA k : \E i \in DOMAIN kwargs : kwargs[i][1] = k)
    IN [n \in 1..Len(present) |-> kwargs[at(present[n])]]

\* autoposter.py:126-199 _build_source_kwargs for a configured source: the
\* kwargs are the entries of the channel's content_config
build_source_kwargs(channel_row) == channel_row.content_config

\* autoposter.py:53-54: both dicts are empty
NoSources ==
    [cache |-> [c \in DOMAIN channels |-> 0],
     signature |-> [c \in DOMAIN channels |-> <<>>],
     created |-> 0]

NoSourceCall ==
    [channel_id |-> 0, key |-> "", kwargs |-> <<>>, source |-> 0, built |-> FALSE,
     raised |-> FALSE]

\* autoposter.py:201-210 _get_or_create_source. create_ok: ContentSourceFactory.create
\* returns; an instance is named by the number of instances built before it
get_or_create_source(src, channel_id, key, kwargs, create_ok) ==
    LET signature == json_dumps(kwargs)
        cached_sig == src.signature[channel_id]
        cached == src.cache[channel_id]
        source == src.created + 1
    IN IF cached # 0 /\ cached_sig = <<key, signature>>
       THEN [sources |-> src, source |-> cached, raised |-> FALSE]
       ELSE IF ~create_ok
       THEN [sources |-> src, source |-> 0, raised |-> TRUE]
       ELSE [sources |-> [cache |-> [src.cache EXCEPT ![channel_id] = source],
                          signature |-> [src.signature EXCEPT
                                           ![channel_id] = <<key, signature>>],
                          created |-> source],
             source |-> source, raised |-> FALSE]

NoStoreCall ==
    [op |-> "none", channel_id |-> 0, item_id |-> 0, key |-> "", payload |-> "", id |-> 0,
     was |-> ""]

TickIdle ==
    [pc |-> "idle", now_ts |-> 0, hour |-> 0, channel_rows |-> <<>>, idx |-> 0,
     pending |-> 0, pending0 |-> 0, batch |-> <<>>, fetch_raised |-> FALSE,
     pending_posts |-> <<>>, posted |-> 0, post_id |-> 0,
     selected |-> <<>>, attempts |-> <<>>,
     eligible |-> {}, processed |-> {}, errored |-> {}, result |-> "none"]

\* autoposter.py:49  self._task = None
NoTask == [runners |-> 0, starts |-> 0, call |-> "none"]

\* the runner task that start() has created once
Started == [runners |-> 1, starts |-> 1, call |-> "started"]

\* no scheduler: the state of the variables of the tick when only votes run
NoTick ==
    /\ content_items = <<>>
    /\ tick = TickIdle
    /\ task = NoTask
    /\ last_run = <<>>
    /\ delivered = {}
    /\ clock = [now_ts |-> 0, ticks |-> 0]
    /\ settings = NightSettings
    /\ publish_log = <<>>
    /\ store_call = NoStoreCall
    /\ sources = NoSources
    /\ source_call = NoSourceCall

current_channel(t) == t.channel_rows[t.idx]

\* the for loop of tick moves to the next channel, or tick returns
next_channel(t) ==
    IF t.idx + 1 > Len(t.channel_rows)
    THEN [t EXCEPT !.pc = "returned", !.result = "done", !.pending_posts = <<>>,
                   !.post_id = 0, !.batch = <<>>, !.fetch_raised = FALSE]
    ELSE [t EXCEPT !.pc = "channel", !.idx = t.idx + 1, !.pending = 0,
                   !.pending0 = 0, !.pending_posts = <<>>, !.post_id = 0, !.batch = <<>>,
                   !.fetch_raised = FALSE]

\* Mutation of tick_raises: the exception ends the runner.
tick_raises_ends_runner(t) ==
    [t EXCEPT !.pc = "stopped", !.result = "failed", !.pending_posts = <<>>, !.post_id = 0,
              !.batch = <<>>, !.fetch_raised = FALSE, !.errored = t.errored \cup {current_channel(t)}]

\* an exception leaves tick: _runner catches and logs it (autoposter.py:77-78)
tick_raises(t) ==
    [t EXCEPT !.pc = "returned", !.result = "failed", !.pending_posts = <<>>, !.post_id = 0,
              !.batch = <<>>, !.fetch_raised = FALSE,
              !.errored = t.errored \cup {current_channel(t)}]

\* autoposter.py:107-115: _publish_from_queue has returned
finish_channel(t) ==
    next_channel([t EXCEPT !.processed = t.processed \cup {current_channel(t)}])

\* Mutation of last_run_after: the timestamp is written whatever was posted.
last_run_always(t) == [last_run EXCEPT ![current_channel(t)] = t.now_ts]

\* autoposter.py:108-109
last_run_after(t) ==
    IF t.posted > 0 THEN [last_run EXCEPT ![current_channel(t)] = t.now_ts] ELSE last_run

\* autoposter.py:82-84: tick reads the clock and the enabled channels
TickStart(now_ts, hour) ==
    /\ tick.pc = "idle"
    /\ clock.ticks < MaxTicks
    /\ clock' = [now_ts |-> now_ts, ticks |-> clock.ticks + 1]
    /\ \E rows \in {iter_channels} :
        tick' = IF rows = <<>>
                THEN [TickIdle EXCEPT !.pc = "returned", !.now_ts = now_ts, !.hour = hour,
                                      !.result = "done"]
                ELSE [TickIdle EXCEPT !.pc = "channel", !.now_ts = now_ts, !.hour = hour,
                                      !.channel_rows = rows, !.idx = 1,
                                      !.result = "running",
                                      !.eligible = {c \in DOMAIN channels :
                                                      passes_gates(c, now_ts, hour)}]
    /\ UNCHANGED <<channels, posts, votes, service, latest, promoted, quarantine_fired, last,
                   calls, content_items, last_run, delivered, settings, publish_log,
                   store_call,
                   sources, source_call, demoted, task>>

\* autoposter.py:71-79 _runner: tick has returned or raised (the exception is
\* logged); the runner sleeps until the next tick
TickSleep ==
    /\ tick.pc = "returned"
    /\ tick' = TickIdle
    /\ UNCHANGED <<channels, posts, votes, service, latest, promoted, quarantine_fired, last,
                   calls, content_items, last_run, delivered, clock, settings, publish_log, store_call,
                   sources, source_call, demoted, task>>

\* Mutation of runner_active: start() never finds a runner.
runner_active_never == FALSE

\* autoposter.py:57  self._task and not self._task.done()
runner_active == task.runners > 0

\* autoposter.py:56-61 start: returns when a runner task is active, otherwise
\* clears the stop event and creates the runner task, which begins at the top of
\* the loop of _runner. There is no await between the test and create_task.
start ==
    /\ runner_active \/ task.starts < MaxStarts
    /\ IF runner_active
       THEN /\ task' = [task EXCEPT !.call = "ignored"]
            /\ tick' = tick
       ELSE /\ task' = [runners |-> task.runners + 1, starts |-> task.starts + 1,
                        call |-> "started"]
            /\ tick' = TickIdle
    /\ UNCHANGED <<channels, posts, votes, service, latest, promoted, quarantine_fired, last,
                   calls, content_items, last_run, delivered, clock, settings, publish_log,
                   store_call, sources, source_call, demoted>>

\* Mutation of stop: the stop event is set and the runner task is left to run.
stop_sets_event_only ==
    /\ tick.pc # "stopped"
    /\ tick' = tick
    /\ task' = [task EXCEPT !.call = "stopped"]
    /\ UNCHANGED <<channels, posts, votes, service, latest, promoted, quarantine_fired, last,
                   calls, content_items, last_run, delivered, clock, settings, publish_log,
                   store_call, sources, source_call, demoted>>

\* autoposter.py:63-69 stop: the runner task is cancelled at the await it is
\* suspended in (the sleep of _runner or any await inside tick) and ends
stop ==
    /\ tick.pc # "stopped"
    /\ tick' = [TickIdle EXCEPT !.pc = "stopped"]
    /\ task' = [task EXCEPT !.runners = 0, !.call = "stopped"]
    /\ UNCHANGED <<channels, posts, votes, service, latest, promoted, quarantine_fired, last,
                   calls, content_items, last_run, delivered, clock, settings, publish_log,
                   store_call,
                   sources, source_call, demoted>>

\* autoposter.py:85-105: the gates, the source, count_pending_posts.
\* source_ok: ContentSourceFactory.create returns when _get_or_create_source
\* calls it; store_ok: count_pending_posts returns
TickChannel(source_ok, store_ok) ==
    /\ tick.pc = "channel"
    /\ \E c \in {current_channel(tick)} :
       \E g \in {get_or_create_source(sources, c, channels[c].content_source,
                                      build_source_kwargs(channels[c]), source_ok)} :
        /\ tick' = IF ~passes_gates(c, tick.now_ts, tick.hour) THEN next_channel(tick)
                   ELSE IF g.raised
                        THEN next_channel([tick EXCEPT !.errored = tick.errored \cup {c}])
                   ELSE IF ~store_ok THEN tick_raises(tick)
                   ELSE [tick EXCEPT !.pending = count_pending_posts(posts, c),
                                     !.pending0 = count_pending_posts(posts, c),
                                     !.pc = IF count_pending_posts(posts, c) >= queue_target
                                            THEN "publish" ELSE "ensure"]
        /\ sources' = IF passes_gates(c, tick.now_ts, tick.hour) THEN g.sources ELSE sources
    /\ UNCHANGED <<channels, posts, votes, service, latest, promoted, quarantine_fired, last,
                   calls, content_items, last_run, delivered, clock, settings, publish_log,
                   store_call, source_call, demoted, task>>

\* Mutation of enqueue_rejects: an item without media is enqueued like any other.
enqueue_rejects_nothing(item) == FALSE

\* autoposter.py:246-247: an item with neither a media url nor a video url
enqueue_rejects(item) == ~item.media

\* Mutation of enqueue_batch: the for loop runs to the end of the batch.
RECURSIVE enqueue_batch_whole(_, _, _, _, _, _)
enqueue_batch_whole(tbl, items, channel_id, batch, pending, new_added) ==
    IF batch = <<>>
    THEN [posts |-> tbl, content_items |-> items, pending |-> pending,
          new_added |-> new_added, rest |-> batch]
    ELSE LET item == Head(batch) IN
         IF enqueue_rejects(item)
         THEN enqueue_batch_whole(tbl, items, channel_id, Tail(batch), pending, new_added)
         ELSE LET up == upsert_content_item(items, item.source_id, item.media) IN
              IF get_unposted_item(tbl, channel_id, up.id) # 0
              THEN enqueue_batch_whole(tbl, up.items, channel_id, Tail(batch), pending,
                                       new_added)
              ELSE enqueue_batch_whole(create_post(tbl, channel_id, up.id), up.items,
                                       channel_id, Tail(batch), pending + 1, new_added + 1)

\* autoposter.py _enqueue_item and the for loop of _ensure_queue over one batch:
\* the store after the batch, the pending count, the number of new posts
RECURSIVE enqueue_batch(_, _, _, _, _, _)
enqueue_batch(tbl, items, channel_id, batch, pending, new_added) ==
    IF batch = <<>> \/ pending >= queue_target
    THEN [posts |-> tbl, content_items |-> items, pending |-> pending,
          new_added |-> new_added, rest |-> batch]
    ELSE LET item == Head(batch) IN
         IF enqueue_rejects(item)
         THEN enqueue_batch(tbl, items, channel_id, Tail(batch), pending, new_added)
         ELSE LET up == upsert_content_item(items, item.source_id, item.media) IN
              IF get_unposted_item(tbl, channel_id, up.id) # 0
              THEN enqueue_batch(tbl, up.items, channel_id, Tail(batch), pending, new_added)
              ELSE enqueue_batch(create_post(tbl, channel_id, up.id), up.items, channel_id,
                                 Tail(batch), pending + 1, new_added + 1)

\* what source.fetch does in one call: it returns a batch of the source or raises
FetchOutcomes(batches) ==
    {[raised |-> FALSE, items |-> b] : b \in batches}
        \cup {[raised |-> TRUE, items |-> <<>>]}

\* Mutation of fetch_items: the exception of the source leaves _fetch_items.
fetch_items_propagates(fetched) ==
    [items |-> IF fetched.raised THEN <<>> ELSE fetched.items, raised |-> fetched.raised]

\* autoposter.py:212-218 _fetch_items: any exception of the fetch is logged and
\* an empty list is returned; raised: an exception leaves _fetch_items
fetch_items(fetched) ==
    [items |-> IF fetched.raised THEN <<>> ELSE fetched.items, raised |-> FALSE]

\* Mutation of ensure_continues: the loop runs until the queue is full.
ensure_continues_until_full(batch, new_added, pending) == pending < queue_target

\* autoposter.py:223, 231-232, 240-242: the while loop of _ensure_queue goes round
\* again
ensure_continues(batch, new_added, pending) ==
    batch # <<>> /\ new_added # 0 /\ pending < queue_target

\* autoposter.py:223-242: one round of the while loop of _ensure_queue. fetched
\* is what source.fetch does; fail_at > 0: the store raises at the fail_at-th
\* item of the batch, one that _enqueue_item takes to the store
TickEnsure(fetched, fail_at) ==
    /\ tick.pc = "ensure"
    /\ fail_at # 0 => ~enqueue_rejects(fetched.items[fail_at])
    /\ \E c \in {current_channel(tick)} :
       \E f \in {fetch_items(fetched)} :
       \E r \in {enqueue_batch(posts, content_items, c,
                               IF fail_at = 0 THEN f.items
                               ELSE SubSeq(f.items, 1, fail_at - 1),
                               tick.pending, 0)} :
        /\ posts' = r.posts
        /\ content_items' = r.content_items
        /\ tick' = IF f.raised \/ (fail_at # 0 /\ r.pending < queue_target)
                   THEN [tick_raises(tick) EXCEPT !.fetch_raised = fetched.raised,
                                                  !.batch = f.items, !.pending0 = 0]
                   ELSE [tick EXCEPT !.pending = r.pending, !.batch = f.items,
                                     !.fetch_raised = fetched.raised,
                                     !.pc = IF ensure_continues(f.items, r.new_added,
                                                                r.pending)
                                            THEN "ensure" ELSE "publish"]
    /\ UNCHANGED <<channels, votes, service, latest, promoted, quarantine_fired, last,
                   calls, last_run, delivered, clock, settings, publish_log, store_call,
                   sources, source_call, demoted, task>>

\* autoposter.py:272-275: fetch_pending_posts
TickPublish(store_ok) ==
    /\ tick.pc = "publish"
    /\ \E rows \in {fetch_pending_posts(posts, current_channel(tick), max_posts_per_run)} :
        /\ tick' = IF ~store_ok THEN tick_raises([tick EXCEPT !.pending0 = 0])
                   ELSE IF rows = <<>>
                        THEN finish_channel([tick EXCEPT !.posted = 0, !.selected = <<>>,
                                                         !.attempts = <<>>, !.pending0 = 0])
                   ELSE [tick EXCEPT !.pc = "send", !.pending_posts = rows, !.posted = 0,
                                     !.selected = rows, !.attempts = <<>>,
                                     !.batch = <<>>, !.pending0 = 0]
    /\ UNCHANGED <<channels, posts, votes, service, latest, promoted, quarantine_fired, last,
                   calls, content_items, last_run, delivered, clock, settings, publish_log, store_call,
                   sources, source_call, demoted, task>>

\* Mutation of after_post: the call returns after the first row.
after_post_first_only(t) == finish_channel(t)

\* the for loop of _publish_from_queue moves on, or the channel is finished
after_post(t) ==
    IF Len(t.pending_posts) > 1
    THEN [t EXCEPT !.pc = "send", !.pending_posts = Tail(t.pending_posts), !.post_id = 0]
    ELSE finish_channel(t)

SendOutcomes == {"ok", "rejected", "error"}

\* Mutation of send_post: a post that cannot be sent is left as it is.
send_post_leaves_pending(outcome) ==
    [sent |-> outcome = "ok", failed |-> FALSE, raised |-> outcome = "error"]

\* autoposter.py:378-405: what _send_post does with the outcome of preparing the
\* media and sending the message. "rejected": the video cannot be downloaded,
\* there is no media url, or the gateway answers TelegramBadRequest: mark_failed,
\* return False; "error": any other exception of the gateway call leaves tick
send_post(outcome) ==
    [sent |-> outcome = "ok", failed |-> outcome = "rejected", raised |-> outcome = "error"]

\* autoposter.py:373-413: the media is prepared and the message sent
TickSend(outcome) ==
    /\ tick.pc = "send"
    /\ \E post_id \in {Head(tick.pending_posts)} :
       \E s \in {send_post(outcome)} :
       \E t \in {[tick EXCEPT !.attempts = Append(tick.attempts, <<post_id, outcome>>)]} :
        /\ posts' = IF s.failed THEN mark_failed(posts, post_id) ELSE posts
        /\ delivered' = IF s.sent THEN delivered \cup {post_id} ELSE delivered
        /\ tick' = IF s.sent THEN [t EXCEPT !.pc = "record", !.post_id = post_id]
                   ELSE IF s.raised THEN tick_raises(t)
                   ELSE after_post(t)
        /\ last_run' = IF ~s.sent /\ ~s.raised /\ Len(tick.pending_posts) <= 1
                       THEN last_run_after(tick) ELSE last_run
    /\ UNCHANGED <<channels, votes, service, latest, promoted, quarantine_fired, last,
                   calls, content_items, clock, settings, publish_log, store_call,
                   sources, source_call, demoted, task>>

\* autoposter.py:414-426: get_chat_member_count (0: TelegramBadRequest, the
\* count stays None), then mark_posted. ok: neither call raises anything else
TickRecord(audience_size, ok) ==
    /\ tick.pc = "record"
    /\ \E t \in {[tick EXCEPT !.posted = tick.posted + 1]} :
        /\ posts' = IF ok THEN mark_posted(posts, tick.post_id, audience_size) ELSE posts
        /\ tick' = IF ok THEN after_post(t) ELSE tick_raises(tick)
        /\ last_run' = IF ok /\ Len(tick.pending_posts) <= 1 THEN last_run_after(t)
                       ELSE last_run
        /\ publish_log' = IF ok THEN [publish_log EXCEPT ![current_channel(tick)] =
                                                            tick.now_ts]
                          ELSE publish_log
    /\ UNCHANGED <<channels, votes, service, latest, promoted, quarantine_fired, last,
                   calls, content_items, delivered, clock, settings, store_call,
                   sources, source_call, demoted, task>>

\* ------------------------------------------------- serial votes on a post

\* (like_threshold, audience_size) of the channel and its post: a dynamic
\* threshold of an even and of an odd audience, a fixed threshold beside a known
\* audience, a fixed threshold alone, and neither.
Setups == {<<0, 10>>, <<0, 5>>, <<3, 10>>, <<2, 0>>, <<0, 0>>}
DislikeThresholds == {-3}
Boards == {"board"}
QuarantineChats == {"", "chat"}

NoCall ==
    [post_id |-> 0, likes |-> 0, dislikes |-> 0, action |-> "none",
     inserted |-> FALSE, changed |-> FALSE,
     good_called |-> FALSE, pinned |-> FALSE, bad_called |-> FALSE,
     quarantine_tried |-> FALSE, forwarded |-> FALSE, quarantined |-> FALSE,
     client_ok |-> TRUE, bad_ok |-> TRUE, forward_ok |-> TRUE]

\* A published post with no votes yet, on a channel registered with any of the
\* configurations above.
InitVote ==
    /\ \E setup \in Setups :
        /\ channels \in [ChannelIds ->
                           [like_threshold : {setup[1]},
                            dislike_threshold : DislikeThresholds,
                            pinterest_board_id : Boards,
                            pinterest_bad_board_id : {""}]]
        /\ posts \in [PostIds -> [status : {"posted"}, audience_size : {setup[2]},
                                  channel_id : ChannelIds, content_item_id : {1}]]
    /\ votes = [p \in PostIds |-> [u \in Users |-> 0]]
    /\ service \in [quarantine_chat_id : QuarantineChats, pinterest_client : {TRUE}]
    /\ latest = [p \in PostIds |-> [u \in Users |-> 0]]
    /\ promoted = {}
    /\ quarantine_fired = {}
    /\ demoted = {}
    /\ last = NoCall
    /\ calls = <<>>
    /\ NoTick

\* Voter ids are interchangeable: a new voter takes the lowest unused id.
NextVoter(post_id, user_id) ==
    IF user_id = 1 THEN TRUE ELSE latest[post_id][user_id - 1] # 0

Vote ==
    \E post_id \in PostIds, user_id \in Users, vote_value \in VoteValues :
        /\ NextVoter(post_id, user_id)
        /\ register_vote(post_id, user_id, vote_value)

NextVote == Vote

SpecVote == InitVote /\ [][NextVote]_vars

\* ------------------------------- register_vote calls that interleave
\* Each await of register_vote is a point where another call may run:
\* record_vote_once, aggregate_votes, fetch_post, the board client call inside
\* _save_pin, set_pinned, forward_message and set_quarantined.

CallIds == 1..NumCalls

Idle ==
    [pc |-> "idle", post_id |-> 0, user_id |-> 0, vote_value |-> 0, inserted |-> FALSE,
     likes |-> 0, dislikes |-> 0, status |-> "", good_called |-> FALSE,
     pinned |-> FALSE, bad_called |-> FALSE, quarantine_tried |-> FALSE,
     forwarded |-> FALSE, quarantined |-> FALSE]

\* the post row a call holds: the configuration is fixed, the status is the one
\* read at fetch_post
held_row(c) == [fetch_post(calls[c].post_id) EXCEPT !.status = calls[c].status]

\* voting.py:47
CallRecord(c, post_id, user_id, vote_value) ==
    /\ calls[c].pc = "idle"
    /\ post_id \in DOMAIN posts
    /\ \E rec \in {record_vote_once(votes, post_id, user_id, vote_value)} :
        /\ votes' = rec.rows
        /\ calls' = [calls EXCEPT ![c] = [@ EXCEPT !.pc = "aggregate", !.post_id = post_id,
                                             !.user_id = user_id, !.vote_value = vote_value,
                                             !.inserted = rec.inserted]]
    /\ latest' = [latest EXCEPT ![post_id][user_id] = vote_value]
    /\ UNCHANGED <<channels, posts, service, promoted, quarantine_fired, last,
                   content_items, tick, last_run, delivered, clock, settings, publish_log, store_call,
                   sources, source_call, demoted, task>>

\* voting.py:48
CallAggregate(c) ==
    /\ calls[c].pc = "aggregate"
    /\ \E agg \in {aggregate_votes(votes, calls[c].post_id)} :
        calls' = [calls EXCEPT ![c] = [@ EXCEPT !.pc = "fetch", !.likes = agg.likes,
                                           !.dislikes = agg.dislikes]]
    /\ UNCHANGED <<channels, posts, votes, service, latest, promoted, quarantine_fired, last,
                   content_items, tick, last_run, delivered, clock, settings, publish_log, store_call,
                   sources, source_call, demoted, task>>

\* voting.py:49-67
CallFetchPost(c) ==
    /\ calls[c].pc = "fetch"
    /\ calls' = [calls EXCEPT ![c] = [@ EXCEPT !.pc = "pin",
                                         !.status = posts[calls[c].post_id].status]]
    /\ UNCHANGED <<channels, posts, votes, service, latest, promoted, quarantine_fired, last,
                   content_items, tick, last_run, delivered, clock, settings, publish_log, store_call,
                   sources, source_call, demoted, task>>

\* voting.py:76-77: the bad-board call made once the promotion is over; its
\* result is discarded and it touches nothing the calls share
after_pin(call, held) ==
    [call EXCEPT !.pc = "quarantine",
                 !.bad_called = should_pin_bad(held, call.dislikes) /\ save_pin_invokes_client]

\* voting.py:68-69, 85-87: the board client call for the good board
CallPin(c) ==
    /\ calls[c].pc = "pin"
    /\ \E client_ok \in client_outcomes(held_row(c), calls[c].likes) :
       \E try_pin \in {should_pin(held_row(c), calls[c].likes)} :
       \E call \in {[calls[c] EXCEPT !.good_called = try_pin /\ save_pin_invokes_client]} :
        calls' = [calls EXCEPT ![c] = IF try_pin /\ save_pin(client_ok)
                                      THEN [call EXCEPT !.pc = "set_pinned"]
                                      ELSE after_pin(call, held_row(c))]
    /\ demoted' = IF calls'[c].bad_called THEN demoted \cup {calls[c].post_id} ELSE demoted
    /\ UNCHANGED <<channels, posts, votes, service, latest, promoted, quarantine_fired, last,
                   content_items, tick, last_run, delivered, clock, settings, publish_log, store_call,
                   sources, source_call, task>>

\* voting.py:88-97, 74-77
CallSetPinned(c) ==
    /\ calls[c].pc = "set_pinned"
    /\ posts' = set_pinned(posts, calls[c].post_id)
    /\ promoted' = promoted \cup {calls[c].post_id}
    /\ calls' = [calls EXCEPT ![c] = after_pin([@ EXCEPT !.pinned = TRUE], held_row(c))]
    /\ demoted' = IF calls'[c].bad_called THEN demoted \cup {calls[c].post_id} ELSE demoted
    /\ UNCHANGED <<channels, votes, service, latest, quarantine_fired, last,
                   content_items, tick, last_run, delivered, clock, settings, publish_log, store_call,
                   sources, source_call, task>>

\* what the call returns: voting.py:74-75, 80-82
call_action(call) ==
    IF call.quarantined THEN "quarantined" ELSE IF call.pinned THEN "pinned" ELSE "none"

\* voting.py:78-79, 200-211: the check and, with a destination, forward_message
CallQuarantine(c) ==
    /\ calls[c].pc = "quarantine"
    /\ \E try \in {should_quarantine(held_row(c), calls[c].likes, calls[c].dislikes)} :
       \E forward_ok \in forward_outcomes(held_row(c), calls[c].likes, calls[c].dislikes) :
        calls' = [calls EXCEPT ![c] =
                    [@ EXCEPT !.pc = IF try /\ send_to_quarantine(forward_ok)
                                     THEN "set_quarantined" ELSE "done",
                              !.quarantine_tried = try,
                              !.forwarded = try /\ quarantine_forwards]]
    /\ UNCHANGED <<channels, posts, votes, service, latest, promoted, quarantine_fired, last,
                   content_items, tick, last_run, delivered, clock, settings, publish_log, store_call,
                   sources, source_call, demoted, task>>

\* voting.py:201 / 212, 80-82
CallSetQuarantined(c) ==
    /\ calls[c].pc = "set_quarantined"
    /\ posts' = set_quarantined(posts, calls[c].post_id)
    /\ quarantine_fired' = quarantine_fired \cup {calls[c].post_id}
    /\ calls' = [calls EXCEPT ![c] = [@ EXCEPT !.pc = "done", !.quarantined = TRUE]]
    /\ UNCHANGED <<channels, votes, service, latest, promoted, last,
                   content_items, tick, last_run, delivered, clock, settings, publish_log, store_call,
                   sources, source_call, demoted, task>>

ConcLikeThresholds == {1, 2}
ConcDislikeThresholds == {-1}

InitConc ==
    /\ channels \in [ChannelIds ->
                       [like_threshold : ConcLikeThresholds,
                        dislike_threshold : ConcDislikeThresholds,
                        pinterest_board_id : Boards,
                        pinterest_bad_board_id : {""}]]
    /\ posts \in [PostIds -> [status : {"posted"}, audience_size : {0},
                              channel_id : ChannelIds, content_item_id : {1}]]
    /\ votes = [p \in PostIds |-> [u \in Users |-> 0]]
    /\ service \in [quarantine_chat_id : QuarantineChats, pinterest_client : {TRUE}]
    /\ latest = [p \in PostIds |-> [u \in Users |-> 0]]
    /\ promoted = {}
    /\ quarantine_fired = {}
    /\ demoted = {}
    /\ last = NoCall
    /\ calls = [c \in CallIds |-> Idle]
    /\ NoTick

\* Call ids are labels: the calls are numbered in the order they start.
NextCall(c) ==
    IF c = 1 THEN TRUE ELSE calls[c - 1].pc # "idle"

StartCall ==
    \E c \in CallIds, post_id \in PostIds, user_id \in Users, vote_value \in VoteValues :
        /\ NextCall(c)
        /\ NextVoter(post_id, user_id)
        /\ CallRecord(c, post_id, user_id, vote_value)

NextConc ==
    \/ StartCall
    \/ \E c \in CallIds : CallAggregate(c)
    \/ \E c \in CallIds : CallFetchPost(c)
    \/ \E c \in CallIds : CallPin(c)
    \/ \E c \in CallIds : CallSetPinned(c)
    \/ \E c \in CallIds : CallQuarantine(c)
    \/ \E c \in CallIds : CallSetQuarantined(c)

SpecConc == InitConc /\ [][NextConc]_vars

\* ----------------------------------------- the scheduler and votes together

TickChannelIds == {1, 2}
\* the source of the channels and its configuration
TickSource == "pinterest_search"
TickConfig == <<<<"query", "memes">>>>
Feed ==
    <<[source_id |-> "a", media |-> TRUE], [source_id |-> "b", media |-> FALSE],
      [source_id |-> "c", media |-> TRUE]>>
TickPostIds == 1..(Cardinality(TickChannelIds) * Len(Feed))
\* voters that press a button while the scheduler runs, and the posts they vote on
TickVoters == {1}
VotedPosts == {1}
TickVoteValues == {1}
\* hour of day of a tick: outside and inside the posting window
Hours == {10, 23}
\* seconds between two ticks: within and beyond the channels' interval
TickGaps == {500, 901}
\* member counts the gateway reports; 0: the count could not be read
Audiences == {0, 2}

\* what a source returns for one fetch: the first items of its feed (none when
\* the feed is empty or the fetch failed); the feed holds an item without media
Batches == {SubSeq(Feed, 1, n) : n \in 0..Len(Feed)}

InitTick ==
    /\ channels \in [TickChannelIds ->
                       [enabled : {TRUE},
                        autopost_interval : {AutopostInterval},
                        source_configured : {TRUE},
                        content_source : {TickSource},
                        content_config : {TickConfig},
                        like_threshold : {0},
                        dislike_threshold : {-1},
                        pinterest_board_id : Boards,
                        pinterest_bad_board_id : {""}]]
    /\ posts = <<>>
    /\ votes = [p \in TickPostIds |-> [u \in Users |-> 0]]
    /\ service = [quarantine_chat_id |-> "", pinterest_client |-> TRUE]
    /\ latest = [p \in TickPostIds |-> [u \in Users |-> 0]]
    /\ promoted = {}
    /\ quarantine_fired = {}
    /\ demoted = {}
    /\ last = NoCall
    /\ calls = <<>>
    /\ content_items = <<>>
    /\ tick = TickIdle
    /\ task = Started
    /\ last_run = [c \in TickChannelIds |-> 0]
    /\ delivered = {}
    /\ clock = [now_ts |-> AutopostInterval, ticks |-> 0]
    /\ settings = NightSettings
    /\ publish_log = [c \in TickChannelIds |-> 0]
    /\ store_call = NoStoreCall
    /\ sources = NoSources
    /\ source_call = NoSourceCall

\* A member of the channel presses a button under a message that was delivered.
TickVote ==
    \E post_id \in delivered \cap VotedPosts, user_id \in TickVoters,
       vote_value \in TickVoteValues :
        register_vote(post_id, user_id, vote_value)

\* the first tick runs when the scheduler starts
NextGaps == IF clock.ticks = 0 THEN {0} ELSE TickGaps

NextTick ==
    \/ \E gap \in NextGaps, hour \in Hours : TickStart(clock.now_ts + gap, hour)
    \/ TickSleep
    \/ \E source_ok, store_ok \in BOOLEAN : TickChannel(source_ok, store_ok)
    \/ \E fetched \in FetchOutcomes(Batches) :
          \E fail_at \in 0..Len(fetched.items) : TickEnsure(fetched, fail_at)
    \/ \E store_ok \in BOOLEAN : TickPublish(store_ok)
    \/ \E outcome \in SendOutcomes : TickSend(outcome)
    \/ \E audience_size \in Audiences, ok \in BOOLEAN : TickRecord(audience_size, ok)
    \/ TickVote

SpecTick == InitTick /\ [][NextTick]_vars

\* ------------------------------------------------- the scheduler on its own
\* Ticks of the runner under both kinds of posting window and with one and two
\* posts per run, sources that repeat items, and stop().

\* two posts per channel and tick, window 09:00 - 18:00
DaySettings ==
    [max_posts_per_run |-> 2, posting_start_hour |-> 9, posting_end_hour |-> 18]

SchedSettings == {NightSettings, DaySettings}

\* the first item of the feed, listed without its media
Bare == [source_id |-> Feed[1].source_id, media |-> FALSE]

\* a source may also list an item twice in one batch, list nothing but an item
\* without media, or list without media an item it has listed with media
SchedBatches == Batches \cup {<<Feed[1], Feed[1]>>, <<Feed[2]>>, <<Bare>>}

InitSched ==
    /\ channels \in [TickChannelIds ->
                       [enabled : {TRUE},
                        autopost_interval : {AutopostInterval},
                        source_configured : {TRUE},
                        content_source : {TickSource},
                        content_config : {TickConfig},
                        like_threshold : {0},
                        dislike_threshold : {-1},
                        pinterest_board_id : Boards,
                        pinterest_bad_board_id : {""}]]
    /\ posts = <<>>
    /\ votes = [p \in TickPostIds |-> [u \in Users |-> 0]]
    /\ service = [quarantine_chat_id |-> "", pinterest_client |-> TRUE]
    /\ latest = [p \in TickPostIds |-> [u \in Users |-> 0]]
    /\ promoted = {}
    /\ quarantine_fired = {}
    /\ demoted = {}
    /\ last = NoCall
    /\ calls = <<>>
    /\ content_items = <<>>
    /\ tick = TickIdle
    /\ task = Started
    /\ last_run = [c \in TickChannelIds |-> 0]
    /\ delivered = {}
    /\ clock = [now_ts |-> AutopostInterval, ticks |-> 0]
    /\ settings \in SchedSettings
    /\ publish_log = [c \in TickChannelIds |-> 0]
    /\ store_call = NoStoreCall
    /\ sources = NoSources
    /\ source_call = NoSourceCall

NextSched ==
    \/ \E gap \in NextGaps, hour \in Hours : TickStart(clock.now_ts + gap, hour)
    \/ TickSleep
    \/ stop
    \/ \E source_ok, store_ok \in BOOLEAN : TickChannel(source_ok, store_ok)
    \/ \E fetched \in FetchOutcomes(SchedBatches) :
          \E fail_at \in 0..Len(fetched.items) : TickEnsure(fetched, fail_at)
    \/ \E store_ok \in BOOLEAN : TickPublish(store_ok)
    \/ \E outcome \in SendOutcomes : TickSend(outcome)
    \/ \E audience_size \in Audiences, ok \in BOOLEAN : TickRecord(audience_size, ok)

SpecSched == InitSched /\ [][NextSched]_vars

\* ------------------------------------------------ the store called directly
\* Calls of upsert_content_item, create_post and mark_failed in any order.

StoreKeys == {Feed[1].source_id, Feed[3].source_id}
StorePayloads == {"p1", "p2"}

\* db.py upsert_content_item called with (key, payload)
StoreUpsert(key, payload) ==
    /\ \E id \in {item_id_of(content_items, key)} :
       \E up \in {upsert_content_item(content_items, key, payload)} :
        /\ content_items' = up.items
        /\ store_call' = [op |-> "upsert_content_item", channel_id |-> 0, item_id |-> 0,
                          key |-> key, payload |-> payload, id |-> up.id,
                          was |-> IF id = 0 THEN "" ELSE content_items[id].payload]
    /\ UNCHANGED <<channels, posts, votes, service, latest, promoted, quarantine_fired, last,
                   calls, tick, last_run, delivered, clock, settings, publish_log,
                   sources, source_call, demoted, task>>

\* db.py create_post called with (channel_id, content_item_id) of existing rows
StoreCreatePost(channel_id, content_item_id) ==
    /\ content_item_id \in DOMAIN content_items
    /\ \E id \in {get_unposted_item(posts, channel_id, content_item_id)} :
        /\ posts' = create_post(posts, channel_id, content_item_id)
        /\ store_call' = [op |-> "create_post", channel_id |-> channel_id,
                          item_id |-> content_item_id, key |-> "", payload |-> "",
                          id |-> create_post_id(posts, channel_id, content_item_id),
                          was |-> IF id = 0 THEN "" ELSE posts[id].status]
    /\ UNCHANGED <<channels, votes, service, latest, promoted, quarantine_fired, last,
                   calls, content_items, tick, last_run, delivered, clock, settings,
                   publish_log,
                   sources, source_call, demoted, task>>

\* Database.mark_failed called with the id of an existing post
StoreMarkFailed(post_id) ==
    /\ post_id \in DOMAIN posts
    /\ posts' = mark_failed(posts, post_id)
    /\ store_call' = [op |-> "mark_failed", channel_id |-> 0, item_id |-> 0, key |-> "",
                      payload |-> "", id |-> post_id, was |-> posts[post_id].status]
    /\ UNCHANGED <<channels, votes, service, latest, promoted, quarantine_fired, last,
                   calls, content_items, tick, last_run, delivered, clock, settings,
                   publish_log,
                   sources, source_call, demoted, task>>

InitStore ==
    /\ channels = [c \in TickChannelIds |->
                     [enabled |-> TRUE, autopost_interval |-> AutopostInterval,
                      source_configured |-> TRUE, content_source |-> TickSource,
                      content_config |-> TickConfig, like_threshold |-> 0,
                      dislike_threshold |-> 0, pinterest_board_id |-> "",
                      pinterest_bad_board_id |-> ""]]
    /\ posts = <<>>
    /\ votes = [p \in TickPostIds |-> [u \in Users |-> 0]]
    /\ service = [quarantine_chat_id |-> "", pinterest_client |-> TRUE]
    /\ latest = [p \in TickPostIds |-> [u \in Users |-> 0]]
    /\ promoted = {}
    /\ quarantine_fired = {}
    /\ demoted = {}
    /\ last = NoCall
    /\ calls = <<>>
    /\ NoTick

NextStore ==
    \/ \E key \in StoreKeys, payload \in StorePayloads : StoreUpsert(key, payload)
    \/ \E channel_id \in TickChannelIds, content_item_id \in 1..Cardinality(StoreKeys) :
          StoreCreatePost(channel_id, content_item_id)
    \/ \E post_id \in TickPostIds : StoreMarkFailed(post_id)

SpecStore == InitStore /\ [][NextStore]_vars

\* ------------------------------------------------------ the runner, fairly
\* One channel; the event loop keeps running the runner task: the sleep of
\* _runner ends and the loop starts the next tick, unless stop() was called.

RunnerChannelIds == {1}
RunnerHours == {23}
RunnerBatches == {<<>>, Feed}

InitRunner ==
    /\ channels \in [RunnerChannelIds ->
                       [enabled : {TRUE},
                        autopost_interval : {AutopostInterval},
                        source_configured : {TRUE},
                        content_source : {TickSource},
                        content_config : {TickConfig},
                        like_threshold : {0},
                        dislike_threshold : {-1},
                        pinterest_board_id : Boards,
                        pinterest_bad_board_id : {""}]]
    /\ posts = <<>>
    /\ votes = [p \in TickPostIds |-> [u \in Users |-> 0]]
    /\ service = [quarantine_chat_id |-> "", pinterest_client |-> TRUE]
    /\ latest = [p \in TickPostIds |-> [u \in Users |-> 0]]
    /\ promoted = {}
    /\ quarantine_fired = {}
    /\ demoted = {}
    /\ last = NoCall
    /\ calls = <<>>
    /\ content_items = <<>>
    /\ tick = TickIdle
    /\ task = Started
    /\ last_run = [c \in RunnerChannelIds |-> 0]
    /\ delivered = {}
    /\ clock = [now_ts |-> AutopostInterval, ticks |-> 0]
    /\ settings = NightSettings
    /\ publish_log = [c \in RunnerChannelIds |-> 0]
    /\ store_call = NoStoreCall
    /\ sources = NoSources
    /\ source_call = NoSourceCall

\* autoposter.py:72-74: the loop of _runner calls tick
RunnerTick ==
    \E gap \in NextGaps, hour \in RunnerHours : TickStart(clock.now_ts + gap, hour)

NextRunner ==
    \/ RunnerTick
    \/ TickSleep
    \/ stop
    \/ \E source_ok, store_ok \in BOOLEAN : TickChannel(source_ok, store_ok)
    \/ \E fetched \in FetchOutcomes(RunnerBatches) :
          \E fail_at \in 0..Len(fetched.items) : TickEnsure(fetched, fail_at)
    \/ \E store_ok \in BOOLEAN : TickPublish(store_ok)
    \/ \E outcome \in SendOutcomes : TickSend(outcome)
    \/ \E audience_size \in Audiences, ok \in BOOLEAN : TickRecord(audience_size, ok)

SpecRunner ==
    /\ InitRunner /\ [][NextRunner]_vars
    /\ WF_vars(TickSleep)
    /\ WF_vars(RunnerTick)

\* --------------------------------------------- serial votes, with a bad board
\* Channels with and without a bad board, with a dislike threshold of zero and
\* a negative one, and posts of a known (odd) and an unknown audience.

BoardLikeThresholds == {1}
BoardDislikeThresholds == {0, -2}
BadBoards == {"", "bad"}
BoardAudiences == {0, 5}

InitBoard ==
    /\ channels \in [ChannelIds ->
                       [like_threshold : BoardLikeThresholds,
                        dislike_threshold : BoardDislikeThresholds,
                        pinterest_board_id : Boards,
                        pinterest_bad_board_id : BadBoards]]
    /\ posts \in [PostIds -> [status : {"posted"}, audience_size : BoardAudiences,
                              channel_id : ChannelIds, content_item_id : {1}]]
    /\ votes = [p \in PostIds |-> [u \in Users |-> 0]]
    /\ service = [quarantine_chat_id |-> "", pinterest_client |-> TRUE]
    /\ latest = [p \in PostIds |-> [u \in Users |-> 0]]
    /\ promoted = {}
    /\ quarantine_fired = {}
    /\ demoted = {}
    /\ last = NoCall
    /\ calls = <<>>
    /\ NoTick

NextBoard == Vote

SpecBoard == InitBoard /\ [][NextBoard]_vars

\* ------------------------------------------ the source cache called directly
\* Calls of _get_or_create_source for two channels with any key and kwargs,
\* the kwargs of one configuration also in both insertion orders.

SourceKeys == {"pinterest_search", "pinterest_board_ideas"}
SourceKwargs ==
    {<<<<"query", "memes">>>>,
     <<<<"query", "cats">>>>,
     <<<<"locale", "ru-RU">>, <<"query", "memes">>>>,
     <<<<"query", "memes">>, <<"locale", "ru-RU">>>>}

\* autoposter.py:100 _get_or_create_source called with (channel_id, key, kwargs)
GetOrCreateSource(channel_id, key, kwargs, create_ok) ==
    /\ sources.created < MaxSources
    /\ \E g \in {get_or_create_source(sources, channel_id, key, kwargs, create_ok)} :
        /\ sources' = g.sources
        /\ source_call' = [channel_id |-> channel_id, key |-> key, kwargs |-> kwargs,
                           source |-> g.source,
                           built |-> g.sources.created # sources.created,
                           raised |-> g.raised]
    /\ UNCHANGED <<channels, posts, votes, service, latest, promoted, quarantine_fired, last,
                   calls, content_items, tick, last_run, delivered, clock, settings,
                   publish_log, store_call, demoted, task>>

InitSource ==
    /\ channels = [c \in TickChannelIds |->
                     [enabled |-> TRUE, autopost_interval |-> AutopostInterval,
                      source_configured |-> TRUE, content_source |-> TickSource,
                      content_config |-> TickConfig, like_threshold |-> 0,
                      dislike_threshold |-> 0, pinterest_board_id |-> "",
                      pinterest_bad_board_id |-> ""]]
    /\ posts = <<>>
    /\ votes = [p \in TickPostIds |-> [u \in Users |-> 0]]
    /\ service = [quarantine_chat_id |-> "", pinterest_client |-> TRUE]
    /\ latest = [p \in TickPostIds |-> [u \in Users |-> 0]]
    /\ promoted = {}
    /\ quarantine_fired = {}
    /\ demoted = {}
    /\ last = NoCall
    /\ calls = <<>>
    /\ NoTick

NextSource ==
    \E channel_id \in TickChannelIds, key \in SourceKeys, kwargs \in SourceKwargs,
       create_ok \in BOOLEAN :
        GetOrCreateSource(channel_id, key, kwargs, create_ok)

SpecSource == InitSource /\ [][NextSource]_vars

\* ------------------------------------- ticks whose sends succeed or are rejected
\* The scheduler and votes as above, with a gateway whose send either delivers
\* the message or answers TelegramBadRequest.

GatewayOutcomes == {"ok", "rejected"}

NextPublish ==
    \/ \E gap \in NextGaps, hour \in Hours : TickStart(clock.now_ts + gap, hour)
    \/ TickSleep
    \/ \E source_ok, store_ok \in BOOLEAN : TickChannel(source_ok, store_ok)
    \/ \E fetched \in FetchOutcomes(Batches) :
          \E fail_at \in 0..Len(fetched.items) : TickEnsure(fetched, fail_at)
    \/ \E store_ok \in BOOLEAN : TickPublish(store_ok)
    \/ \E outcome \in GatewayOutcomes : TickSend(outcome)
    \/ \E audience_size \in Audiences, ok \in BOOLEAN : TickRecord(audience_size, ok)
    \/ TickVote

SpecPublish == InitTick /\ [][NextPublish]_vars

\* ------------------------- serial votes, with and without a board and a client
\* Channels with and without a good board, served with and without a board
\* client, with a fixed and a dynamic like threshold.

PinSetups == {<<1, 0>>, <<0, 5>>}
PinBoards == {"", "board"}
PinClients == BOOLEAN

InitPin ==
    /\ \E setup \in PinSetups :
        /\ channels \in [ChannelIds ->
                           [like_threshold : {setup[1]},
                            dislike_threshold : DislikeThresholds,
                            pinterest_board_id : PinBoards,
                            pinterest_bad_board_id : {""}]]
        /\ posts \in [PostIds -> [status : {"posted"}, audience_size : {setup[2]},
                                  channel_id : ChannelIds, content_item_id : {1}]]
    /\ votes = [p \in PostIds |-> [u \in Users |-> 0]]
    /\ service \in [quarantine_chat_id : {""}, pinterest_client : PinClients]
    /\ latest = [p \in PostIds |-> [u \in Users |-> 0]]
    /\ promoted = {}
    /\ quarantine_fired = {}
    /\ demoted = {}
    /\ last = NoCall
    /\ calls = <<>>
    /\ NoTick

NextPin == Vote

SpecPin == InitPin /\ [][NextPin]_vars

\* ------------------------------------------- the queue of one channel refilled
\* One channel whose source lists more new items than the queue has room for.

QueueFeed ==
    <<[source_id |-> "a", media |-> TRUE], [source_id |-> "b", media |-> FALSE],
      [source_id |-> "c", media |-> TRUE], [source_id |-> "d", media |-> TRUE]>>
QueueBatches == {SubSeq(QueueFeed, 1, n) : n \in 0..Len(QueueFeed)}

InitQueue ==
    /\ channels \in [RunnerChannelIds ->
                       [enabled : {TRUE},
                        autopost_interval : {AutopostInterval},
                        source_configured : {TRUE},
                        content_source : {TickSource},
                        content_config : {TickConfig},
                        like_threshold : {0},
                        dislike_threshold : {-1},
                        pinterest_board_id : Boards,
                        pinterest_bad_board_id : {""}]]
    /\ posts = <<>>
    /\ votes = [p \in TickPostIds |-> [u \in Users |-> 0]]
    /\ service = [quarantine_chat_id |-> "", pinterest_client |-> TRUE]
    /\ latest = [p \in TickPostIds |-> [u \in Users |-> 0]]
    /\ promoted = {}
    /\ quarantine_fired = {}
    /\ demoted = {}
    /\ last = NoCall
    /\ calls = <<>>
    /\ content_items = <<>>
    /\ tick = TickIdle
    /\ task = Started
    /\ last_run = [c \in RunnerChannelIds |-> 0]
    /\ delivered = {}
    /\ clock = [now_ts |-> AutopostInterval, ticks |-> 0]
    /\ settings \in SchedSettings
    /\ publish_log = [c \in RunnerChannelIds |-> 0]
    /\ store_call = NoStoreCall
    /\ sources = NoSources
    /\ source_call = NoSourceCall

NextQueue ==
    \/ \E gap \in NextGaps, hour \in Hours : TickStart(clock.now_ts + gap, hour)
    \/ TickSleep
    \/ \E source_ok, store_ok \in BOOLEAN : TickChannel(source_ok, store_ok)
    \/ \E fetched \in FetchOutcomes(QueueBatches) :
          \E fail_at \in 0..Len(fetched.items) : TickEnsure(fetched, fail_at)
    \/ \E store_ok \in BOOLEAN : TickPublish(store_ok)
    \/ \E outcome \in SendOutcomes : TickSend(outcome)
    \/ \E audience_size \in Audiences, ok \in BOOLEAN : TickRecord(audience_size, ok)

SpecQueue == InitQueue /\ [][NextQueue]_vars

\* ------------------------------------------- the scheduler started and stopped
\* One channel; start() and stop() are called in any order and at any point of
\* a tick, each call running to its end before the next one.

InitLife ==
    /\ channels \in [RunnerChannelIds ->
                       [enabled : {TRUE},
                        autopost_interval : {AutopostInterval},
                        source_configured : {TRUE},
                        content_source : {TickSource},
                        content_config : {TickConfig},
                        like_threshold : {0},
                        dislike_threshold : {-1},
                        pinterest_board_id : Boards,
                        pinterest_bad_board_id : {""}]]
    /\ posts = <<>>
    /\ votes = [p \in TickPostIds |-> [u \in Users |-> 0]]
    /\ service = [quarantine_chat_id |-> "", pinterest_client |-> TRUE]
    /\ latest = [p \in TickPostIds |-> [u \in Users |-> 0]]
    /\ promoted = {}
    /\ quarantine_fired = {}
    /\ demoted = {}
    /\ last = NoCall
    /\ calls = <<>>
    /\ content_items = <<>>
    /\ tick = [TickIdle EXCEPT !.pc = "stopped"]
    /\ task = NoTask
    /\ last_run = [c \in RunnerChannelIds |-> 0]
    /\ delivered = {}
    /\ clock = [now_ts |-> AutopostInterval, ticks |-> 0]
    /\ settings = NightSettings
    /\ publish_log = [c \in RunnerChannelIds |-> 0]
    /\ store_call = NoStoreCall
    /\ sources = NoSources
    /\ source_call = NoSourceCall

NextLife ==
    \/ start
    \/ stop
    \/ RunnerTick
    \/ TickSleep
    \/ \E source_ok, store_ok \in BOOLEAN : TickChannel(source_ok, store_ok)
    \/ \E fetched \in FetchOutcomes(RunnerBatches) :
          \E fail_at \in 0..Len(fetched.items) : TickEnsure(fetched, fail_at)
    \/ \E store_ok \in BOOLEAN : TickPublish(store_ok)
    \/ \E outcome \in SendOutcomes : TickSend(outcome)
    \/ \E audience_size \in Audiences, ok \in BOOLEAN : TickRecord(audience_size, ok)

SpecLife == InitLife /\ [][NextLife]_vars

\* ------------------------------ serial votes on two posts of one content item
\* Two channels have each published a post of the same content item; a few
\* voters vote on either post.

IsoChannelIds == {1, 2}
IsoPostIds == {1, 2}
IsoVoters == {1, 2}
IsoLikeThresholds == {2}
IsoDislikeThresholds == {-1}

InitIso ==
    /\ channels \in [IsoChannelIds ->
                       [like_threshold : IsoLikeThresholds,
                        dislike_threshold : IsoDislikeThresholds,
                        pinterest_board_id : Boards,
                        pinterest_bad_board_id : {""}]]
    /\ posts = [p \in IsoPostIds |->
                  [status |-> "posted", audience_size |-> 0, channel_id |-> p,
                   content_item_id |-> 1]]
    /\ votes = [p \in IsoPostIds |-> [u \in Users |-> 0]]
    /\ service = [quarantine_chat_id |-> "", pinterest_client |-> TRUE]
    /\ latest = [p \in IsoPostIds |-> [u \in Users |-> 0]]
    /\ promoted = {}
    /\ quarantine_fired = {}
    /\ demoted = {}
    /\ last = NoCall
    /\ calls = <<>>
    /\ NoTick

NextIso ==
    \E post_id \in IsoPostIds, user_id \in IsoVoters, vote_value \in VoteValues :
        register_vote(post_id, user_id, vote_value)

SpecIso == InitIso /\ [][NextIso]_vars

\* ------------------------------------------------------------------ claims
\* In the formulas on steps, the unprimed variables are the store before a
\* register_vote call and last' is what that call did and returned.

Voted == last.post_id # 0
LastPost == posts[last.post_id]
LastChannel == channels[LastPost.channel_id]
CalledPost == posts[last'.post_id]
CalledChannel == channels[CalledPost.channel_id]

\* The least n with 2n >= a, i.e. ceil(a / 2).
CeilHalf(a) == CHOOSE n \in 0..a : 2 * n >= a /\ 2 * (n - 1) < a

LatestCount(post_id, value) == Cardinality({u \in Users : latest[post_id][u] = value})

\* C1: once a register_vote call has promoted a post, no later register_vote
\* call on that post invokes the board client for the good board again.
C1_AtMostOncePromotion ==
    [][last'.post_id \in promoted => ~last'.good_called]_vars

\* C2: once the quarantine transition has fired for a post, no later
\* register_vote call forwards the post or marks it quarantined again.
C2_AtMostOnceQuarantine ==
    [][last'.post_id \in quarantine_fired => ~last'.quarantine_tried]_vars

\* C3: on a post that is not yet pinned, with a good board and a working
\* client, a call attempts promotion iff likes >= T, T being the channel's
\* like_threshold when positive and otherwise ceil(audience_size / 2) of the
\* recorded audience; (0, 10) gives T = 5 and (3, 10) gives T = 3.
C3_Step ==
    (/\ CalledPost.status # "pinned"
     /\ CalledChannel.pinterest_board_id # ""
     /\ service.pinterest_client
     /\ (CalledChannel.like_threshold > 0 \/ CalledPost.audience_size > 0))
    => /\ last'.good_called <=>
            last'.likes >= (IF CalledChannel.like_threshold > 0
                            THEN CalledChannel.like_threshold
                            ELSE CeilHalf(CalledPost.audience_size))
       /\ (CalledChannel.like_threshold = 0 /\ CalledPost.audience_size = 10)
            => (last'.good_called <=> last'.likes >= 5)
       /\ (CalledChannel.like_threshold = 3 /\ CalledPost.audience_size = 10)
            => (last'.good_called <=> last'.likes >= 3)

C3_ThresholdPrecedence == [][C3_Step]_vars

\* like_threshold=0, audience_size=10: the fifth like promotes the post.
C3_Witness ==
    /\ Voted
    /\ LastChannel.like_threshold = 0 /\ LastPost.audience_size = 10
    /\ last.likes = 5 /\ last.dislikes = 0 /\ last.inserted
    /\ last.good_called /\ last.pinned /\ LastPost.status = "pinned"

\* C4: on a post that is not yet quarantined, a call fires the quarantine
\* transition iff likes - dislikes <= the channel's negative dislike threshold;
\* without a quarantine destination the post is then marked quarantined.
C4_Step ==
    (/\ CalledPost.status # "quarantined"
     /\ CalledChannel.dislike_threshold < 0)
    => /\ last'.quarantine_tried <=>
            (last'.likes - last'.dislikes <= CalledChannel.dislike_threshold)
       /\ service.quarantine_chat_id = ""
            => (last'.quarantined <=> last'.quarantine_tried)
       /\ last'.quarantined => posts'[last'.post_id].status = "quarantined"

C4_QuarantineBoundary == [][C4_Step]_vars

\* like_threshold=2, dislike_threshold=-3, two likes: the vote that brings
\* dislikes to 5 (net -3) quarantines the post.
C4_Witness ==
    /\ Voted
    /\ LastChannel.like_threshold = 2 /\ LastChannel.dislike_threshold = -3
    /\ service.quarantine_chat_id = ""
    /\ last.post_id \in promoted
    /\ last.likes = 2 /\ last.dislikes = 5 /\ last.inserted
    /\ last.quarantined /\ LastPost.status = "quarantined"

\* C5: there is one stored vote per (post, voter) that has voted, holding the
\* value that voter cast last, and the aggregates a register_vote call returns
\* count each voter only under that value.
C5_OneVotePerVoter ==
    /\ \A p \in PostIds, u \in Users : votes[p][u] = latest[p][u]
    /\ Voted => /\ last.likes = LatestCount(last.post_id, 1)
                /\ last.dislikes = LatestCount(last.post_id, -1)

\* A voter changed their vote while others had voted.
C5_Witness ==
    /\ Voted
    /\ last.changed /\ ~last.inserted
    /\ last.likes = 1 /\ last.dislikes = 2

\* C6: whatever the arrival order and the interleaving of the calls, the
\* aggregate of a post is (voters whose latest vote is +1, voters whose latest
\* vote is -1): it depends on the latest vote of each voter only.
C6_OrderIndependent ==
    \A p \in PostIds :
        aggregate_votes(votes, p) =
            [likes |-> LatestCount(p, 1), dislikes |-> LatestCount(p, -1)]

\* Two calls by different voters, each recorded before the other aggregated.
C6_Witness ==
    /\ calls[1].pc = "done" /\ calls[2].pc = "done"
    /\ calls[1].user_id # calls[2].user_id
    /\ calls[1].vote_value = 1 /\ calls[2].vote_value = 1
    /\ calls[1].likes = 2 /\ calls[2].likes = 2
    /\ aggregate_votes(votes, calls[1].post_id) = [likes |-> 2, dislikes |-> 0]

\* C7: action is 'pinned' only in the call in which the promotion newly
\* succeeded, 'quarantined' only in the call in which the quarantine newly
\* fired, and none in every other call.
C7_Step ==
    /\ last'.action = "pinned" => (last'.pinned /\ last'.post_id \notin promoted)
    /\ last'.action = "quarantined"
         => (last'.quarantined /\ last'.post_id \notin quarantine_fired)
    /\ (~last'.pinned /\ ~last'.quarantined) => last'.action = "none"

C7_ReportedAction == [][C7_Step]_vars

\* C8: when two interleaved register_vote calls on one post both read the post
\* as 'posted' and both see the threshold crossed, the board client for the
\* good board (respectively the quarantine) is invoked by at most one of them.
C8_ConcurrentAtMostOnce ==
    \A c1, c2 \in CallIds :
        (/\ c1 # c2
         /\ calls[c1].post_id # 0 /\ calls[c1].post_id = calls[c2].post_id
         /\ calls[c1].status = "posted" /\ calls[c2].status = "posted")
        => /\ ~(calls[c1].good_called /\ calls[c2].good_called)
           /\ ~(calls[c1].quarantine_tried /\ calls[c2].quarantine_tried)

\* C9: a 'pinned' or 'quarantined' status that a vote wrote while the publisher
\* was between sending the post and recording it as posted is not overwritten
\* back to 'posted'.
C9_VoteDuringPublish ==
    [][\A p \in DOMAIN posts :
          posts[p].status \in {"pinned", "quarantined"} => posts'[p].status # "posted"]_vars

\* C10: when a tick is over, every enabled, eligible channel of it has been
\* processed, except the channels whose own processing raised.
C10_FailureIsolation ==
    tick.pc = "returned"
        => \A c \in tick.eligible \ tick.errored : c \in tick.processed

\* ---- claims on the scheduler
\* In the formulas on steps of a tick, the unprimed variables are the state
\* before the step; current_channel(tick) is the channel the step works on.

\* the hour lies in the posting window [first, end), which wraps midnight
\* when first > end
InWindow(h, first, end) ==
    IF first <= end THEN first <= h /\ h < end ELSE h >= first \/ h < end

\* the step is the gate of tick letting the current channel through
Admitted ==
    /\ tick.pc = "channel"
    /\ \/ tick'.pc \in {"ensure", "publish"}
       \/ current_channel(tick) \in tick'.errored

\* the step is the gate of tick skipping the current channel
Skipped ==
    /\ tick.pc = "channel"
    /\ tick'.pc \in {"channel", "returned"}
    /\ current_channel(tick) \notin tick'.errored

\* C11: a tick records a post of a channel as posted only if no earlier tick
\* less than autopost_interval before it published to that channel, whether
\* or not that earlier tick completed; and the gate admits a channel in the
\* window whose last publishing tick is at least autopost_interval back.
C11_Step ==
    /\ \A c \in DOMAIN publish_log :
        publish_log'[c] # publish_log[c]
            => \/ publish_log[c] = 0
               \/ publish_log'[c] - publish_log[c] >= channels[c].autopost_interval
    /\ (/\ tick.pc = "channel" /\ tick'.pc # "stopped"
        /\ InWindow(tick.hour, posting_start_hour, posting_end_hour)
        /\ tick.now_ts - publish_log[current_channel(tick)]
              >= channels[current_channel(tick)].autopost_interval)
       => Admitted

C11_Cooldown == [][C11_Step]_vars

\* C12: the last-run timestamp of a channel changes only when the tick working
\* on that channel has recorded a post of it as posted, and then to the tick's
\* start time; a channel whose processing ends with no post published, and a
\* channel the tick skipped, keep their timestamp, so that the gate admits the
\* channel again at the next tick inside the window.
C12_Step ==
    /\ (/\ tick.pc = "channel" /\ tick'.pc # "stopped"
        /\ InWindow(tick.hour, posting_start_hour, posting_end_hour)
        /\ tick.now_ts - last_run[current_channel(tick)]
              >= channels[current_channel(tick)].autopost_interval)
       => Admitted
    /\ \A c \in DOMAIN last_run :
        /\ last_run'[c] # last_run[c]
            => /\ tick.pc \in {"send", "record"}
               /\ c = current_channel(tick)
               /\ last_run'[c] = tick.now_ts
               /\ publish_log'[c] = tick.now_ts
        /\ (c \in tick'.processed /\ c \notin tick.processed)
            => last_run'[c] = IF publish_log'[c] = tick.now_ts THEN tick.now_ts
                              ELSE last_run[c]

C12_LastRun == [][C12_Step]_vars

\* A tick processed both channels: the first published nothing and kept its
\* timestamp, the second published and took the tick's start time.
C12_Witness ==
    /\ tick.pc = "returned" /\ tick.processed = {1, 2}
    /\ publish_log[1] = 0 /\ last_run[1] = 0
    /\ publish_log[2] = tick.now_ts /\ last_run[2] = tick.now_ts

\* C13: the gate of a tick admits a channel only when the hour of the tick lies
\* in the posting window (start <= h < end, or h >= start or h < end when the
\* window wraps midnight); with window 22-6 a tick at 23:00 admits a channel
\* whose cooldown is over and a tick at 10:00 admits none; a tick outside the
\* window fetches, enqueues and publishes nothing and changes no last-run
\* timestamp.
C13_Step ==
    /\ Admitted => InWindow(tick.hour, posting_start_hour, posting_end_hour)
    /\ (/\ tick.pc = "channel" /\ tick'.pc # "stopped"
        /\ ~InWindow(tick.hour, posting_start_hour, posting_end_hour))
       => Skipped
    /\ (/\ tick.pc = "channel" /\ tick'.pc # "stopped"
        /\ posting_start_hour = 22 /\ posting_end_hour = 6)
       => /\ tick.hour = 10 => Skipped
          /\ (/\ tick.hour = 23
              /\ tick.now_ts - last_run[current_channel(tick)]
                    >= channels[current_channel(tick)].autopost_interval)
             => Admitted
    /\ (/\ tick.pc \notin {"idle", "returned", "stopped"}
        /\ ~InWindow(tick.hour, posting_start_hour, posting_end_hour))
       => /\ tick'.pc \notin {"ensure", "publish", "send", "record"}
          /\ posts' = posts /\ content_items' = content_items
          /\ delivered' = delivered /\ last_run' = last_run

C13_WindowGating == [][C13_Step]_vars

\* Window 22-6: a tick at 23:00 published for channel 1; a later tick at 10:00,
\* when the cooldown of the channel was over, has returned without processing
\* any channel.
C13_Witness ==
    /\ posting_start_hour = 22 /\ posting_end_hour = 6
    /\ tick.pc = "returned" /\ tick.hour = 10 /\ tick.result = "done"
    /\ tick.processed = {} /\ tick.eligible = {}
    /\ last_run[1] > 0
    /\ tick.now_ts - last_run[1] >= channels[1].autopost_interval

\* C14: there is at most one post per (channel, content item) and one content
\* item per source id; a round of _ensure_queue leaves every existing post as
\* it was (whatever its status) and counts as new exactly the posts it created.
C14_Step ==
    /\ \A p, q \in DOMAIN posts' :
        (/\ posts'[p].channel_id = posts'[q].channel_id
         /\ posts'[p].content_item_id = posts'[q].content_item_id) => p = q
    /\ \A i, j \in DOMAIN content_items' :
        content_items'[i].source_id = content_items'[j].source_id => i = j
    /\ (tick.pc = "ensure" /\ tick'.pc # "stopped")
       => /\ \A p \in DOMAIN posts : posts'[p] = posts[p]
          /\ tick'.pc # "returned"
               => tick'.pending - tick.pending = Len(posts') - Len(posts)

C14_NoDuplicateQueueing == [][C14_Step]_vars

\* In a tick after the one that published item "a" for the channel, the source
\* returned "a" twice in one batch: nothing was enqueued.
C14_Witness ==
    /\ tick.pc = "publish" /\ clock.ticks > 1
    /\ tick.batch = <<Feed[1], Feed[1]>>
    /\ \E p \in DOMAIN posts :
        /\ posts[p].channel_id = current_channel(tick)
        /\ posts[p].status \in {"posted", "failed"}
        /\ content_items[posts[p].content_item_id].source_id = Feed[1].source_id
    /\ Cardinality({p \in DOMAIN posts : posts[p].channel_id = current_channel(tick)}) = 1

\* ---- claims on the store
\* In the formulas on steps, store_call' is the call the step made, store_call
\* the call before it, and the unprimed tables are the store before the call.

PostsOf(tbl, channel_id, content_item_id) ==
    {p \in DOMAIN tbl : tbl[p].channel_id = channel_id
                        /\ tbl[p].content_item_id = content_item_id}

\* C15: create_post leaves exactly one post for its (channel, item) pair and
\* returns its id: a second call for the pair adds no row, returns the same id
\* and resets the status of the post (failed included) to pending; no other
\* post is touched.
C15_Step ==
    store_call'.op = "create_post" =>
        \E c \in {store_call'.channel_id}, i \in {store_call'.item_id} :
            /\ PostsOf(posts', c, i) = {store_call'.id}
            /\ posts'[store_call'.id].status = "pending"
            /\ \A p \in DOMAIN posts : p # store_call'.id => posts'[p] = posts[p]
            /\ PostsOf(posts, c, i) # {}
                 => /\ Len(posts') = Len(posts)
                    /\ PostsOf(posts, c, i) = {store_call'.id}
            /\ PostsOf(posts, c, i) = {}
                 => /\ Len(posts') = Len(posts) + 1
                    /\ store_call'.id = Len(posts')
            /\ (/\ store_call.op = "create_post"
                /\ store_call.channel_id = c /\ store_call.item_id = i)
                 => /\ store_call'.id = store_call.id
                    /\ Len(posts') = Len(posts)

C15_CreatePostUnique == [][C15_Step]_vars

\* create_post was called for a pair whose post had failed, beside other posts.
C15_Witness ==
    /\ store_call.op = "create_post" /\ store_call.was = "failed"
    /\ posts[store_call.id].status = "pending"
    /\ Len(posts) > 2

ItemsOf(tbl, key) == {i \in DOMAIN tbl : tbl[i].source_id = key}

\* C16: upsert_content_item leaves exactly one content item for its key,
\* holding the payload of this call, and returns its id: a second call with the
\* same key and another payload adds no row and returns the same id; items with
\* other keys are unchanged.
C16_Step ==
    store_call'.op = "upsert_content_item" =>
        \E k \in {store_call'.key} :
            /\ ItemsOf(content_items', k) = {store_call'.id}
            /\ content_items'[store_call'.id].payload = store_call'.payload
            /\ \A i \in DOMAIN content_items :
                i # store_call'.id => content_items'[i] = content_items[i]
            /\ ItemsOf(content_items, k) # {}
                 => /\ Len(content_items') = Len(content_items)
                    /\ ItemsOf(content_items, k) = {store_call'.id}
            /\ ItemsOf(content_items, k) = {}
                 => /\ Len(content_items') = Len(content_items) + 1
                    /\ store_call'.id = Len(content_items')
            /\ (store_call.op = "upsert_content_item" /\ store_call.key = k)
                 => /\ store_call'.id = store_call.id
                    /\ Len(content_items') = Len(content_items)

C16_UpsertIdempotent == [][C16_Step]_vars

\* The first item was upserted again with another payload, beside a second item.
C16_Witness ==
    /\ store_call.op = "upsert_content_item"
    /\ store_call.was \in StorePayloads /\ store_call.was # store_call.payload
    /\ store_call.id = 1 /\ Len(content_items) = 2
    /\ content_items[1].payload = store_call.payload

\* ---- claims on the status of a post

\* the moves of a status along pending -> posted -> {pinned, quarantined} and
\* pending -> failed
ForwardMoves ==
    {<<"pending", "posted">>, <<"pending", "failed">>,
     <<"pending", "pinned">>, <<"pending", "quarantined">>,
     <<"posted", "pinned">>, <<"posted", "quarantined">>,
     <<"pinned", "quarantined">>, <<"quarantined", "pinned">>}

\* C17: the status of a post only moves forward along pending -> posted ->
\* {pinned, quarantined} or pending -> failed, and never returns to a status
\* it has left: no step takes a post to pinned (quarantined) that was promoted
\* (quarantined) before.
C17_Step ==
    \A p \in DOMAIN posts :
        posts'[p].status # posts[p].status
            => /\ <<posts[p].status, posts'[p].status>> \in ForwardMoves
               /\ ~(posts'[p].status = "pinned" /\ p \in promoted)
               /\ ~(posts'[p].status = "quarantined" /\ p \in quarantine_fired)

C17_StatusMonotonic == [][C17_Step]_vars

\* the threshold of likes a register_vote call on the called post goes by
CalledLikeThreshold ==
    IF CalledChannel.like_threshold > 0 THEN CalledChannel.like_threshold
    ELSE IF CalledPost.audience_size > 0 THEN CeilHalf(CalledPost.audience_size)
    ELSE 1

\* C18: a call whose board-client call failed does not set the post pinned and
\* does not report 'pinned'; a call whose forward was rejected does not set the
\* post quarantined and does not report 'quarantined'; the next call on the
\* post that still meets the threshold makes the same attempt again.
C18_Step ==
    /\ (last'.good_called /\ ~last'.client_ok)
        => /\ ~last'.pinned /\ last'.action # "pinned"
           /\ last'.post_id \in promoted' => last'.post_id \in promoted
           /\ posts'[last'.post_id].status =
                IF last'.quarantined THEN "quarantined" ELSE CalledPost.status
    /\ (last'.forwarded /\ ~last'.forward_ok)
        => /\ ~last'.quarantined /\ last'.action # "quarantined"
           /\ posts'[last'.post_id].status =
                IF last'.pinned THEN "pinned" ELSE CalledPost.status
    /\ (/\ last.post_id = last'.post_id
        /\ last.good_called /\ ~last.client_ok
        /\ CalledPost.status # "pinned"
        /\ last'.likes >= CalledLikeThreshold)
        => last'.good_called
    /\ (/\ last.post_id = last'.post_id
        /\ last.forwarded /\ ~last.forward_ok
        /\ CalledPost.status # "quarantined"
        /\ CalledChannel.dislike_threshold < 0
        /\ last'.likes - last'.dislikes <= CalledChannel.dislike_threshold)
        => last'.quarantine_tried

C18_SideEffectFailure == [][C18_Step]_vars

\* One call in which the board client failed and the forward was rejected: the
\* post is still 'posted' and no action is reported.
C18_Witness ==
    /\ Voted
    /\ last.good_called /\ ~last.client_ok /\ ~last.pinned
    /\ last.forwarded /\ ~last.forward_ok /\ ~last.quarantined
    /\ last.action = "none"
    /\ LastPost.status = "posted"
    /\ last.post_id \notin promoted /\ last.post_id \notin quarantine_fired

\* ---- claims on the runner

\* C19: after a tick that raised, the runner goes on: unless stop() is called,
\* the next tick is started (up to the MaxTicks ticks of a run).
C19_SurvivesTickErrors ==
    \A n \in 1..(MaxTicks - 1) :
        (tick.result = "failed" /\ clock.ticks = n)
            ~> (clock.ticks = n + 1 \/ (tick.pc = "stopped" /\ tick.result = "none"))

\* The first tick raised while recording the post it had sent (the post is
\* delivered and still pending), and the second tick has started.
C19_Witness ==
    /\ clock.ticks = 2
    /\ tick.pc = "channel" /\ tick.idx = 1 /\ tick.result = "running"
    /\ 1 \in delivered /\ posts[1].status = "pending"

\* C20: when stop() cancels the tick between sending a post and recording it
\* as posted, the post whose message was delivered is not left pending.
C20_Step ==
    (tick.pc = "record" /\ tick'.pc = "stopped")
        => posts'[tick.post_id].status # "pending"

C20_CancellationConsistent == [][C20_Step]_vars

\* the posts a sequence of post ids or of attempts names
PostsIn(rows) == {rows[i] : i \in DOMAIN rows}
Attempted(attempts) == {attempts[i][1] : i \in DOMAIN attempts}

\* C21: a post whose send the gateway rejects or whose media cannot be prepared
\* is marked failed by that step, is not delivered and not counted in the
\* number of posts the call returns, and is not among the posts still to be
\* sent; a failed post stays failed through every later step of every tick, is
\* not among the rows _publish_from_queue selects, and is never delivered.
C21_Step ==
    /\ (/\ tick.pc = "send"
        /\ tick'.attempts = Append(tick.attempts, <<Head(tick.pending_posts), "rejected">>))
       => /\ posts'[Head(tick.pending_posts)].status = "failed"
          /\ delivered' = delivered
          /\ tick'.posted = tick.posted
          /\ Head(tick.pending_posts) \notin PostsIn(tick'.pending_posts)
    /\ \A p \in DOMAIN posts :
         posts[p].status = "failed"
         => /\ posts'[p].status = "failed"
            /\ p \notin PostsIn(tick'.pending_posts)
            /\ p \notin Attempted(tick'.attempts) \ Attempted(tick.attempts)
            /\ p \notin delivered' \ delivered

C21_PublishFailure == [][C21_Step]_vars

\* a second tick has run the channel of a post that failed in the first, and
\* has not sent it
C21_Witness ==
    /\ clock.ticks = 2
    /\ tick.pc = "returned"
    /\ tick.result = "done"
    /\ 1 \in DOMAIN posts
    /\ posts[1].status = "failed"
    /\ posts[1].channel_id \in tick.processed
    /\ 1 \notin delivered

\* C22: every round of the while loop of _ensure_queue starts below the queue
\* target and either leaves the loop or goes round again with strictly more
\* pending posts, still below the target; a round whose batch is empty (the
\* source had nothing or its fetch raised) or that enqueued nothing leaves the
\* loop. The pending count grows by the posts the round created and never
\* passes the target, so the loop ends after at most queue_target rounds.
C22_Step ==
    (tick.pc = "ensure" /\ tick'.pc # "stopped")
    => /\ tick.pending < queue_target
       /\ tick'.pc \in {"ensure", "publish", "returned"}
       /\ tick'.pc = "ensure"
          => /\ tick'.pending > tick.pending
             /\ tick'.pending < queue_target
             /\ tick'.batch # <<>>
       /\ Len(posts') = Len(posts) => tick'.pc # "ensure"
       /\ tick'.pc # "returned"
          => /\ tick'.pending = tick.pending + Len(posts') - Len(posts)
             /\ tick'.pending <= queue_target

C22_EnsureQueueTerminates == [][C22_Step]_vars

\* in the first tick a round has enqueued an item and gone round again, and the
\* next round has left the loop below the target because its batch held
\* nothing new
C22_Witness ==
    /\ clock.ticks = 1
    /\ tick.pc = "publish"
    /\ tick.batch # <<>>
    /\ tick.pending > 0
    /\ tick.pending < queue_target

\* the pending posts of a channel, oldest first, at most limit of them
OldestPending(channel_id, limit) ==
    LET pending == {p \in DOMAIN posts : /\ posts[p].channel_id = channel_id
                                         /\ posts[p].status = "pending"}
    IN SortedSeq({p \in pending : Cardinality({q \in pending : q < p}) < limit})

Successes(attempts) == {i \in DOMAIN attempts : attempts[i][2] = "ok"}

\* C23: _publish_from_queue selects the pending posts of its channel, oldest
\* first, at most max_posts of them; it attempts the selected posts in that
\* order, each at most once and never more than max_posts; when it returns it
\* has attempted every selected post and the number it returns is the number
\* of sends that succeeded, between 0 and max_posts.
C23_Step ==
    /\ (tick.pc = "publish" /\ tick'.pc # "stopped" /\ tick'.result # "failed")
       => tick'.selected = OldestPending(current_channel(tick), max_posts_per_run)
    /\ Len(tick'.selected) <= max_posts_per_run
    /\ Len(tick'.attempts) <= Len(tick'.selected)
    /\ \A i \in DOMAIN tick'.attempts : tick'.attempts[i][1] = tick'.selected[i]
    /\ Cardinality(Attempted(tick'.attempts)) = Len(tick'.attempts)
    /\ tick'.posted >= 0
    /\ tick'.posted <= max_posts_per_run
    /\ (/\ tick.pc \in {"publish", "send", "record"}
        /\ tick'.processed # tick.processed)
       => /\ Len(tick'.attempts) = Len(tick'.selected)
          /\ tick'.posted = Cardinality(Successes(tick'.attempts))

C23_PublishCapAndCount == [][C23_Step]_vars

\* a call with two pending posts has returned 1: the first send was rejected,
\* the second succeeded
C23_Witness ==
    /\ tick.attempts = <<<<1, "rejected">>, <<2, "ok">>>>
    /\ tick.posted = 1
    /\ posts[1].channel_id \in tick.processed

\* C24: a round of _ensure_queue whose fetch raises changes neither the posts
\* nor the content items nor the channel rows, leaves the pending count as it
\* was and goes on to _publish_from_queue without an error; that call selects
\* the channel's pending posts as after any other round and sends them in the
\* same tick, and when the channel is done the tick moves to the next channel.
C24_Step ==
    /\ (tick.pc = "ensure" /\ tick'.pc # "stopped" /\ tick'.fetch_raised)
       => /\ posts' = posts
          /\ content_items' = content_items
          /\ channels' = channels
          /\ tick'.pending = tick.pending
          /\ tick'.pc = "publish"
          /\ tick'.result = "running"
          /\ tick'.errored = tick.errored
    /\ (/\ tick.pc = "publish" /\ tick.fetch_raised
        /\ tick'.pc # "stopped" /\ tick'.result # "failed")
       => /\ tick'.selected = OldestPending(current_channel(tick), max_posts_per_run)
          /\ tick'.selected # <<>> => tick'.pc = "send"
    /\ (tick.fetch_raised /\ tick'.processed # tick.processed)
       => /\ tick'.result # "failed"
          /\ tick.idx < Len(tick.channel_rows)
             => tick'.pc = "channel" /\ tick'.idx = tick.idx + 1

C24_FetchFailureIsEmpty == [][C24_Step]_vars

\* the fetch of a channel has raised and a post the channel had pending has
\* been sent in the same tick
C24_Witness ==
    /\ tick.fetch_raised
    /\ tick.pc = "record"
    /\ posts[tick.post_id].status = "pending"
    /\ tick.post_id \in delivered

\* the content items stored under the source ids of a set of candidates
StoredUnder(items, keys) == {items[i] : i \in {j \in DOMAIN items : items[j].source_id \in keys}}

\* C25: a candidate with neither a media url nor a video url is dropped by a
\* round of _ensure_queue: unless the batch also lists the same source id with
\* media, the content items stored under its source id are the ones stored
\* before; every post the round creates is for a candidate with media; and a
\* batch of nothing but such candidates changes neither the posts nor the
\* content items nor the pending count, and raises no error.
C25_Step ==
    (tick.pc = "ensure" /\ tick'.pc # "stopped")
    => LET batch == tick'.batch
           accepted == {batch[i].source_id : i \in {j \in DOMAIN batch : batch[j].media}}
           rejected == {batch[i].source_id : i \in {j \in DOMAIN batch : ~batch[j].media}}
       IN /\ StoredUnder(content_items', rejected \ accepted)
               = StoredUnder(content_items, rejected \ accepted)
          /\ \A p \in DOMAIN posts' \ DOMAIN posts :
               content_items'[posts'[p].content_item_id].source_id \in accepted
          /\ (batch # <<>> /\ accepted = {})
             => /\ posts' = posts
                /\ content_items' = content_items
                /\ tick'.pending = tick.pending
                /\ tick'.result = "running"
                /\ tick'.pc = "publish"

C25_EnqueueRejection == [][C25_Step]_vars

\* a round has dropped a candidate without media whose source id is stored
\* with media: the stored item is as it was
C25_Witness ==
    /\ tick.pc = "publish"
    /\ tick.batch = <<Bare>>
    /\ StoredUnder(content_items, {Bare.source_id})
         = {[source_id |-> Bare.source_id, payload |-> TRUE]}

\* C26: on a channel whose dislike threshold is zero (the value register_vote
\* also uses for an unset one) no call tries the quarantine, returns
\* 'quarantined' or leaves the post quarantined, whatever the likes and
\* dislikes are; the check does not pass for any number of dislikes below the
\* magnitude of the sentinel.
C26_Step ==
    (last'.post_id # 0 /\ CalledChannel.dislike_threshold = 0)
    => /\ ~last'.quarantine_tried
       /\ ~last'.quarantined
       /\ last'.action # "quarantined"
       /\ posts'[last'.post_id].status # "quarantined"
       /\ \A dislikes \in {1, MaxVoters, SENTINEL - 1} :
            ~should_quarantine(fetch_post(last'.post_id), 0, dislikes)

C26_QuarantineDisabledByZero == [][C26_Step]_vars

\* every voter has disliked a post of such a channel
C26_Witness ==
    /\ Voted
    /\ LastChannel.dislike_threshold = 0
    /\ last.likes = 0
    /\ last.dislikes = MaxVoters
    /\ LastPost.status # "quarantined"

\* C27: on a post whose audience size is unknown, of a channel whose like
\* threshold is not positive, the effective like threshold is 1: a call on a
\* post that is not pinned yet invokes the board client for the good board
\* exactly when the post has at least one like.
C27_Step ==
    (/\ last'.post_id # 0
     /\ CalledChannel.like_threshold <= 0
     /\ CalledPost.audience_size = 0)
    => /\ \A manual_like \in {-1, 0} :
            like_threshold([fetch_post(last'.post_id)
                              EXCEPT !.like_threshold = manual_like]) = 1
       /\ (CalledPost.status # "pinned" /\ CalledChannel.pinterest_board_id # "")
          => (last'.good_called <=> last'.likes >= 1)

C27_DynamicFallback == [][C27_Step]_vars

\* the first like on such a post has been promoted
C27_Witness ==
    /\ Voted
    /\ LastChannel.like_threshold = 0
    /\ LastPost.audience_size = 0
    /\ last.likes = 1
    /\ last.dislikes = 0
    /\ last.inserted
    /\ last.good_called
    /\ last.pinned

\* C28: a call that demotes the post to the bad board leaves the store as it
\* is but for the status of the post, and the status, the action it returns
\* and whether it promoted or quarantined are what the promotion and the
\* quarantine of that call decide, whether the board client call for the bad
\* board succeeds or fails. (The timestamps are written by set_pinned and
\* set_quarantined only, with the status.)
C28_Step ==
    (last'.post_id # 0 /\ last'.bad_called)
    => /\ last'.pinned = (last'.good_called /\ last'.client_ok)
       /\ last'.quarantined = (last'.quarantine_tried /\ last'.forward_ok)
       /\ last'.action = IF last'.quarantined THEN "quarantined"
                         ELSE IF last'.pinned THEN "pinned" ELSE "none"
       /\ posts' = [posts EXCEPT ![last'.post_id].status =
                      IF last'.quarantined THEN "quarantined"
                      ELSE IF last'.pinned THEN "pinned" ELSE @]
       /\ channels' = channels

C28_BadBoardKeepsStatus == [][C28_Step]_vars

\* one call has promoted the post, quarantined it and tried the bad board, and
\* the board client call for the bad board failed
C28_Witness ==
    /\ Voted
    /\ last.bad_called
    /\ ~last.bad_ok
    /\ last.pinned
    /\ last.quarantined
    /\ last.action = "quarantined"
    /\ LastPost.status = "quarantined"

\* the dislike count of the demotion: the magnitude of a negative dislike
\* threshold, else half the audience rounded up, else 1
DemotionCount(threshold, audience_size) ==
    IF threshold < 0 THEN -threshold
    ELSE IF audience_size > 0 THEN CeilHalf(audience_size) ELSE 1

\* C30: a call invokes the board client for the bad board exactly when the
\* channel has a bad board and the dislikes have reached the demotion count,
\* whatever the likes, the net score and the status of the post are. (The
\* threshold of the code is compared with the demotion count over further
\* configurations at the first call: it reads nothing a call changes.)
C30_Step ==
    last'.post_id # 0
    => /\ last'.bad_called
          <=> /\ CalledChannel.pinterest_bad_board_id # ""
              /\ last'.dislikes >= DemotionCount(CalledChannel.dislike_threshold,
                                                 CalledPost.audience_size)
       /\ ~Voted
          => \A manual_dislike \in {-2, 0, 2}, audience \in {0, 4, 5} :
            dislike_threshold([fetch_post(last'.post_id)
                                 EXCEPT !.dislike_threshold = manual_dislike,
                                        !.audience_size = audience])
              = DemotionCount(manual_dislike, audience)

C30_BadBoardCondition == [][C30_Step]_vars

\* a post pinned by an earlier call, of an audience of 5 on a channel with a
\* dislike threshold of zero, is demoted at its third dislike
C30_Witness ==
    /\ Voted
    /\ last.bad_called
    /\ LastChannel.dislike_threshold = 0
    /\ LastPost.audience_size = 5
    /\ last.dislikes = 3
    /\ last.likes > 0
    /\ LastPost.status = "pinned"
    /\ ~last.pinned

\* the entries of a dict given as the sequence of its (key, value) pairs
AsDict(pairs) == {pairs[i] : i \in DOMAIN pairs}

\* the channel has a cached instance built for this key and these kwargs
CachedFor(src, channel_id, key, kwargs) ==
    /\ src.cache[channel_id] # 0
    /\ src.signature[channel_id][1] = key
    /\ AsDict(src.signature[channel_id][2]) = AsDict(kwargs)

\* C29: a call of _get_or_create_source for a channel whose cached instance
\* was built for the same key and the same kwargs returns that instance and
\* builds nothing; any other call that returns has built exactly one new
\* instance, returns it and has cached it for the channel under the new key
\* and kwargs; a call whose build raises leaves the cache as it was; no call
\* changes the entry of another channel or returns an instance cached for one.
C29_Step ==
    source_call'.channel_id # 0
    => LET c == source_call'.channel_id
           key == source_call'.key
           kwargs == source_call'.kwargs
           source == source_call'.source
           others == DOMAIN sources.cache \ {c}
       IN /\ CachedFor(sources, c, key, kwargs)
             => /\ source = sources.cache[c]
                /\ ~source_call'.raised
                /\ sources' = sources
          /\ (~CachedFor(sources, c, key, kwargs) /\ ~source_call'.raised)
             => /\ source = sources.created + 1
                /\ sources'.created = sources.created + 1
                /\ sources'.cache[c] = source
                /\ CachedFor(sources', c, key, kwargs)
          /\ source_call'.raised => sources' = sources /\ source = 0
          /\ \A d \in others :
               /\ sources'.cache[d] = sources.cache[d]
               /\ sources'.signature[d] = sources.signature[d]
               /\ ~source_call'.raised => source # sources.cache[d]

C29_SourceCache == [][C29_Step]_vars

\* the instance built for channel 1 after a change is returned again, without
\* a build, to a call whose kwargs are not listed in key order
C29_Witness ==
    /\ source_call.channel_id = 1
    /\ ~source_call.built
    /\ ~source_call.raised
    /\ source_call.source = 2
    /\ sources.cache[1] = 2
    /\ sources.cache[2] = 0
    /\ source_call.kwargs = <<<<"query", "memes">>, <<"locale", "ru-RU">>>>

\* C31: a call whose quarantine check passes, with no quarantine destination
\* configured, makes no forward call and marks the post quarantined; with a
\* destination it makes the forward call, and it marks the post quarantined
\* and reports the quarantine exactly when the forward succeeded.
C31_Step ==
    (last'.post_id # 0 /\ last'.quarantine_tried)
    => IF service.quarantine_chat_id = ""
       THEN /\ ~last'.forwarded
            /\ last'.quarantined
            /\ posts'[last'.post_id].status = "quarantined"
       ELSE /\ last'.forwarded
            /\ last'.quarantined <=> last'.forward_ok
            /\ posts'[last'.post_id].status = "quarantined" <=> last'.forward_ok

C31_QuarantineDestination == [][C31_Step]_vars

\* with a destination configured, the forward of a call has failed and the
\* post is not quarantined
C31_Witness ==
    /\ Voted
    /\ service.quarantine_chat_id # ""
    /\ last.quarantine_tried
    /\ last.forwarded
    /\ ~last.forward_ok
    /\ ~last.quarantined
    /\ LastPost.status # "quarantined"

\* C32: once the board client has been invoked for the bad board on behalf of
\* a post, no later register_vote call on the post invokes it for the bad
\* board again.
C32_DemotionAtMostOnce ==
    [][last'.post_id \in demoted => ~last'.bad_called]_vars

\* C33: while every send succeeds or is rejected, a post whose message has
\* been delivered is not sent again, two delivered posts never carry the same
\* content item on the same channel, a post that is posted, pinned,
\* quarantined or failed is not among the rows _publish_from_queue selects,
\* and no step of the tick returns such a post to pending.
C33_Step ==
    /\ (/\ tick.pc = "send"
        /\ tick'.attempts = Append(tick.attempts, <<Head(tick.pending_posts), "ok">>))
       => Head(tick.pending_posts) \notin delivered
    /\ \A p, q \in delivered' :
         (/\ posts'[p].channel_id = posts'[q].channel_id
          /\ posts'[p].content_item_id = posts'[q].content_item_id) => p = q
    /\ \A p \in DOMAIN posts :
         posts[p].status \in {"posted", "pinned", "quarantined", "failed"}
         => /\ (tick.pc = "publish" /\ tick'.pc = "send")
                  => p \notin PostsIn(tick'.selected)
            /\ posts'[p].status # "pending"

C33_PublishedAtMostOnce == [][C33_Step]_vars

\* C34: in a call on a posted post that runs both the promotion and the
\* quarantine, the promotion succeeds exactly when its board call does,
\* whatever the quarantine does, and is recorded; when both succeed the post
\* ends quarantined and the call returns 'quarantined'; when only the
\* promotion succeeds the post ends pinned and the call returns 'pinned'.
C34_Step ==
    (/\ last'.post_id # 0
     /\ CalledPost.status = "posted"
     /\ last'.good_called
     /\ last'.quarantine_tried)
    => /\ last'.pinned <=> last'.client_ok
       /\ last'.pinned => last'.post_id \in promoted'
       /\ (last'.pinned /\ last'.quarantined)
          => /\ posts'[last'.post_id].status = "quarantined"
             /\ last'.action = "quarantined"
       /\ (last'.pinned /\ ~last'.quarantined)
          => /\ posts'[last'.post_id].status = "pinned"
             /\ last'.action = "pinned"

C34_BothThresholds == [][C34_Step]_vars

\* a call has both promoted and quarantined the post
C34_Witness ==
    /\ Voted
    /\ last.good_called
    /\ last.pinned
    /\ last.quarantine_tried
    /\ last.quarantined
    /\ last.action = "quarantined"
    /\ LastPost.status = "quarantined"
    /\ last.post_id \in promoted

\* C35: a post becomes pinned only in a call on it that invoked the board
\* client for the channel's good board with success; on a channel with no
\* good board, or served without a board client, no call sets the post to
\* pinned or returns 'pinned'.
C35_Step ==
    /\ \A p \in DOMAIN posts :
         (posts[p].status # "pinned" /\ posts'[p].status = "pinned")
         => /\ last'.post_id = p
            /\ last'.good_called
            /\ last'.client_ok
            /\ channels[posts[p].channel_id].pinterest_board_id # ""
            /\ service.pinterest_client
    /\ (/\ last'.post_id # 0
        /\ CalledChannel.pinterest_board_id = "" \/ ~service.pinterest_client)
       => /\ last'.action # "pinned"
          /\ ~last'.pinned
          /\ posts'[last'.post_id].status # "pinned"

C35_PinnedImpliesPromotion == [][C35_Step]_vars

\* the likes of a post reach the like threshold on a channel that has a board
\* but no board client, and the post is not pinned
C35_Witness ==
    /\ Voted
    /\ ~service.pinterest_client
    /\ LastChannel.pinterest_board_id # ""
    /\ last.likes >= 3
    /\ last.likes >= like_threshold(fetch_post(last.post_id))
    /\ ~last.good_called
    /\ last.action = "none"
    /\ LastPost.status = "posted"

\* the larger of two numbers
Max2(a, b) == IF a >= b THEN a ELSE b

\* the posts an _ensure_queue call has created up to the end of a round: those of
\* its earlier rounds and those of the round
CreatedByCall == (tick.pending - tick.pending0) + (Len(posts') - Len(posts))

\* C36: an _ensure_queue call entered with p pending posts and target q has
\* created, at the end of each of its rounds, at most max(q - p, 0) posts; the
\* count it carries on is p plus the number of posts it created and at most
\* max(p, q); and when the channel's pending count has reached the target, no
\* round of fetching is entered and the store is left as it is.
C36_Step ==
    /\ tick.pc = "ensure"
       => /\ CreatedByCall <= Max2(queue_target - tick.pending0, 0)
          /\ tick'.pc \in {"ensure", "publish"}
             => /\ tick'.pending = tick.pending0 + CreatedByCall
                /\ tick'.pending <= Max2(tick.pending0, queue_target)
    /\ (/\ tick.pc = "channel"
        /\ count_pending_posts(posts, current_channel(tick)) >= queue_target)
       => /\ tick'.pc # "ensure"
          /\ posts' = posts
          /\ content_items' = content_items

C36_NeverOverfills == [][C36_Step]_vars

\* a round has filled the queue to its target from a batch that lists one more
\* new item than there was room for
C36_Witness ==
    /\ tick.pc = "publish"
    /\ tick.pending0 < queue_target
    /\ tick.pending = queue_target
    /\ \E i \in DOMAIN tick.batch :
         /\ tick.batch[i].media
         /\ \A j \in DOMAIN content_items :
              content_items[j].source_id # tick.batch[i].source_id

\* C37: there is never more than one runner task; a start() call made while
\* the runner is active creates no task and leaves the tick in progress as it
\* is; and whenever a tick can begin or is in progress there is exactly one
\* runner, the one the tick belongs to.
C37_Step ==
    /\ task'.runners <= 1
    /\ (task.runners > 0 /\ task' # task /\ task'.call # "stopped")
       => /\ task'.call = "ignored"
          /\ task'.runners = task.runners
          /\ task'.starts = task.starts
          /\ tick' = tick
    /\ tick'.pc # "stopped" => task'.runners = 1

C37_SingleRunner == [][C37_Step]_vars

\* start() has been called while a tick was in progress, between the send of a
\* post and mark_posted
C37_Witness ==
    /\ task.call = "ignored"
    /\ task.runners = 1
    /\ tick.pc = "record"
    /\ delivered # {}

\* C38: once stop() has returned there is no runner, and until a start() call
\* no tick begins and no post is enqueued or published: the tick, the clock,
\* the content items, the posts, the delivered messages and _last_run stay as
\* they are; the start() call that follows creates exactly one runner, at the
\* top of its loop.
C38_Step ==
    /\ task.call = "stopped"
       => /\ tick.pc = "stopped"
          /\ task.runners = 0
          /\ \/ /\ task'.call = "started"
                /\ task'.runners = 1
                /\ tick'.pc = "idle"
             \/ UNCHANGED <<tick, clock, content_items, posts, delivered, last_run>>

C38_StopIsFinal == [][C38_Step]_vars

\* the runner was stopped after it had enqueued posts, start() was called
\* again, and the runner it created is publishing
C38_Witness ==
    /\ task.starts = 2
    /\ task.call = "started"
    /\ task.runners = 1
    /\ tick.pc = "send"
    /\ clock.ticks = 2

\* the voters that have a stored vote on the post
VotersOf(rows, post_id) == {u \in Users : rows[post_id][u] # 0}

\* C39: the pair a register_vote call returns adds up to the number of voters
\* with a stored vote on the post after the call; it counts one voter more than
\* the aggregate before the call when the voter is new, and it differs from
\* that aggregate on both sides, with the same sum, when the voter changed
\* their vote.
C39_Step ==
    last'.post_id # 0
    => /\ last'.likes + last'.dislikes = Cardinality(VotersOf(votes', last'.post_id))
       /\ (last'.inserted \/ last'.changed)
          => \E before \in {aggregate_votes(votes, last'.post_id)} :
               /\ last'.inserted
                  => last'.likes + last'.dislikes = before.likes + before.dislikes + 1
               /\ last'.changed
                  => /\ last'.likes # before.likes
                     /\ last'.dislikes # before.dislikes
                     /\ last'.likes + last'.dislikes = before.likes + before.dislikes

C39_AggregateIsVoterCount == [][C39_Step]_vars

\* several voters on each side, the last call by a new voter
C39_Witness ==
    /\ Voted
    /\ last.inserted
    /\ last.likes = 3 /\ last.dislikes = 2
    /\ Cardinality(VotersOf(votes, last.post_id)) = 5

\* C40: a register_vote call on a post leaves the row, the stored votes and
\* the aggregates of every other post as they were, also those of a post of
\* another channel that carries the same content item; and a call in which
\* neither the promotion nor the quarantine succeeds leaves the status of its
\* own post as it was.
C40_Step ==
    last'.post_id # 0
    => /\ \A q \in DOMAIN posts \ {last'.post_id} :
            /\ posts'[q] = posts[q]
            /\ votes'[q] = votes[q]
            /\ aggregate_votes(votes', q) = aggregate_votes(votes, q)
       /\ (~last'.pinned /\ ~last'.quarantined)
          => /\ last'.action = "none"
             /\ posts'[last'.post_id].status = posts[last'.post_id].status

C40_VotesIsolated == [][C40_Step]_vars

\* a call has pinned one post while the other post of the same content item,
\* on another channel, has votes of its own and is still posted
C40_Witness ==
    /\ Voted
    /\ last.pinned
    /\ LastPost.status = "pinned"
    /\ \E q \in DOMAIN posts \ {last.post_id} :
         /\ posts[q].content_item_id = LastPost.content_item_id
         /\ posts[q].channel_id # LastPost.channel_id
         /\ posts[q].status = "posted"
         /\ VotersOf(votes, q) # {}

====
